---- MODULE Spec2Model ----
(***************************************************************************)
(* A model of pcdsdaq/daq.py: the synchronous backend DaqLCLS1 (a caller   *)
(* thread, its begin workers and end-status workers, and the pydaq peer)   *)
(* and the composite status tokens of the asynchronous backend DaqLCLS2.   *)
(*                                                                         *)
(* Reading conventions.  A reference that cannot resolve at all when the   *)
(* statement runs is read as its evident referent: self._state_enum        *)
(* (daq.py:561) as state_enum, self.configred_sig (daq.py:1068) as         *)
(* configured_sig, self.info (daq.py:1444) as info, the enum helpers       *)
(* called on the enum class as called on its vocabulary, and a keyword a   *)
(* callee does not accept (record= to kickoff, daq.py:700-704) as not      *)
(* passed.  What the code does with values, which arguments it forwards    *)
(* and the order of its statements are modelled as written.                *)
(* DoConfigure_AsSpelt is configure with daq.py:1068 taken literally.       *)
(* Time is an integer clock in seconds.                                    *)
(***************************************************************************)
EXTENDS Integers, Sequences, FiniteSets, TLC

\* ---------------------------------------------------------------- bounds
MaxTime == 3
PollIters == 2
NBegin == 1
NEnd == 1
MaxIds == 3

\* ------------------------------------------------------ program constants
BEGIN_TIMEOUT == 15
BEGIN_THROTTLE == 1
\* the sentinel "use the last configured value", and None
CONFIG_VAL == -8
NoneVal == -9
NoControl == -1

state_enum == <<"Disconnected", "Connected", "Configured", "Open", "Running">>
Disconnected == 0
Connected == 1
Configured == 2
Open == 3
Running == 4
requires_configure_transition == {"record", "use_l3t"}
Platforms == 0..5

default_config ==
  [events |-> NoneVal, duration |-> NoneVal, record |-> "None", use_l3t |-> "False"]

VARIABLES
  \* DaqLCLS1 fields
  control,        \* _control: the platform slot of the session, or NoControl
  cfg,            \* the *_cfg signals
  dirty,          \* _queue_configure_transition
  configured,     \* configured_sig
  snap,           \* _begin
  last_stop,      \* _last_stop
  re_cbid,        \* _re_cbid is not None
  pre_run_state,  \* _pre_run_state
  run_number_failed, \* _check_run_number_has_failed
  \* threads
  caller,         \* the calling thread: where it is blocked, and in which call
  bw,             \* begin workers (kickoff.start_thread) and their tokens
  ew,             \* end-status workers (_get_end_status.finish_thread) and tokens
  \* the peer and the clock
  slots,          \* what each platform slot answers to a connect
  peer,           \* the state ordinal the peer reports
  lag,            \* the peer was stopped and has not yet reported it
  finite,         \* the acquisition in progress ends by itself
  now,
  \* what the last call did
  op, result, rpcs,
  retval,         \* what the last call returned when the model keeps it, else <<>>
  call_args,      \* the arguments of the last call when the model keeps them
  stop_stamp,     \* the timestamp recorded by the most recent stop()
  begin_rpc,      \* the most recent peer begin RPC: the time since the most
                  \* recent stop(), and its arguments
  \* DaqLCLS2
  state_sig,      \* the state the listener last put
  transition_sig, \* the transition the listener last put
  mon,            \* _monitor_thread: idle, or between the two puts of a status
  tok,            \* a token of get_status_for, with the closure it lives in
  signals,        \* the other signals the listener puts, and configured_sig
  destroyed       \* _destroyed

vars == <<control, cfg, dirty, configured, snap, last_stop, re_cbid, pre_run_state,
          run_number_failed, caller, bw, ew, slots, peer, lag, finite, now,
          op, result, rpcs, retval, call_args, stop_stamp, begin_rpc,
          state_sig, transition_sig, mon, tok, signals, destroyed>>

\* what the synchronous backend never touches
fixed == <<slots, state_sig, transition_sig, mon, tok, signals, destroyed>>
\* what the asynchronous backend never touches
lcls1 == <<control, cfg, dirty, configured, snap, last_stop, re_cbid, pre_run_state,
           run_number_failed, caller, bw, ew, slots, peer, lag, finite, now,
           op, result, rpcs, retval, call_args, stop_stamp, begin_rpc>>

prog == <<control, cfg, dirty, configured, snap, last_stop, re_cbid, pre_run_state,
          run_number_failed>>

\* what only the listener and destroy write
quiet == <<signals, destroyed>>

\* ----------------------------------------------------------------- helpers
Min(S) == CHOOSE x \in S : \A y \in S : x <= y

\* _reset_begin
reset_begin == [events |-> NoneVal, duration |-> NoneVal, use_l3t |-> "None"]

\* state (property): asks the peer when connected
StateOf(ctl, p) == IF ctl # NoControl THEN state_enum[p + 1] ELSE "Disconnected"
state == StateOf(control, peer)

\* config (property): the signals once configured, the class defaults before
ConfigOf(isconf, c) == IF isconf THEN c ELSE default_config
config == ConfigOf(configured, cfg)

\* connect(): slots are tried in order; a 'query' failure sets err and the loop
\* goes on; err drops the handle even when a later slot accepted
ConnectSlot(sl) ==
  LET acc == {p \in Platforms : sl[p] = "accept"}
      first == IF acc = {} THEN 6 ELSE Min(acc)
      err == \E p \in Platforms : p < first /\ sl[p] = "query"
  IN IF acc = {} \/ err THEN NoControl ELSE first
\* the slot on which the peer holds a session after connect()
ConnectSession(sl) ==
  LET acc == {p \in Platforms : sl[p] = "accept"}
  IN IF acc = {} THEN NoControl ELSE Min(acc)

\* _check_duration
check_duration(duration) ==
  duration \notin {NoneVal, CONFIG_VAL} /\ duration < 1

\* DaqLCLS1.preconfig + Daq.preconfig: the signals after the writes
PreconfigCfg(c, events, duration, record, use_l3t) ==
  LET dur == IF events # CONFIG_VAL THEN CONFIG_VAL ELSE duration
  IN [events |-> IF events # CONFIG_VAL THEN events ELSE c.events,
      duration |-> IF dur # CONFIG_VAL THEN dur ELSE c.duration,
      record |-> IF record # "CFG" THEN record ELSE c.record,
      use_l3t |-> IF use_l3t # "CFG" THEN use_l3t ELSE c.use_l3t]
\* PreconfigDirty with record the only parameter that queues a transition
PreconfigDirty_RecordOnly(d, record, use_l3t) ==
  d \/ ("record" \in requires_configure_transition /\ record # "CFG")

PreconfigDirty(d, record, use_l3t) ==
  d \/ ("record" \in requires_configure_transition /\ record # "CFG")
    \/ ("use_l3t" \in requires_configure_transition /\ use_l3t # "CFG")

\* _infinite_run with _events and _duration, from the snapshot and the config
SnapEvents(s, conf) == IF s.events = CONFIG_VAL THEN conf.events ELSE s.events
SnapDuration(s, conf) == IF s.duration = CONFIG_VAL THEN conf.duration ELSE s.duration
InfiniteRun(s, conf) ==
  IF SnapEvents(s, conf) = NoneVal /\ SnapDuration(s, conf) = NoneVal THEN TRUE
  ELSE SnapEvents(s, conf) \in {-1, 0}
infinite_run == InfiniteRun(snap, config)

\* begin_args with a duration taking precedence over an events value
begin_args_duration_first(events, duration, use_l3t, isconf, conf) ==
  LET both == events = CONFIG_VAL /\ duration = CONFIG_VAL
      ev == IF both THEN conf.events ELSE events
      du == IF both THEN conf.duration ELSE duration
      l3 == IF use_l3t \in {"None", "CFG"} /\ isconf THEN conf.use_l3t ELSE use_l3t
  IN IF du \notin {NoneVal, CONFIG_VAL}
       THEN [kind |-> "duration", val |-> du]
     ELSE IF ev \notin {NoneVal, CONFIG_VAL}
       THEN [kind |-> IF l3 \in {"True", "CFG"} THEN "l3t_events" ELSE "events",
             val |-> ev]
     ELSE [kind |-> "events", val |-> 0]

\* _begin_args: which argument the peer begin RPC gets, and its value (a
\* use_l3t left at the sentinel is true to "if use_l3t")
begin_args(events, duration, use_l3t, isconf, conf) ==
  LET both == events = CONFIG_VAL /\ duration = CONFIG_VAL
      ev == IF both THEN conf.events ELSE events
      du == IF both THEN conf.duration ELSE duration
      l3 == IF use_l3t \in {"None", "CFG"} /\ isconf THEN conf.use_l3t ELSE use_l3t
  IN IF ev \notin {NoneVal, CONFIG_VAL}
       THEN [kind |-> IF l3 \in {"True", "CFG"} THEN "l3t_events" ELSE "events",
             val |-> ev]
     ELSE IF du \notin {NoneVal, CONFIG_VAL}
       THEN [kind |-> "duration", val |-> du]
     ELSE [kind |-> "events", val |-> 0]

\* ------------------------------------------------------------------ peer
\* What a stop can do to a Running peer: it ends the acquisition and reports
\* Open (run still open) or Configured, at once or after a lag during which
\* it still reports Running.
StopOutcomes == {[to |-> t, lg |-> l] : t \in {Open, Configured}, l \in BOOLEAN}
\* a peer begin with these arguments ends by itself
FiniteArgs(a) == ~(a.kind \in {"events", "l3t_events"} /\ a.val \in {-1, 0})
\* the peer is taking data (a stopped peer that still reports Running is not)
Acquiring(p, lg) == p = Running /\ lg = 0

\* ------------------------------------------------ the calling thread's calls
\* the one element of a singleton; { e(x) : x \in {v} } names an intermediate
\* result of a call once
The(S) == CHOOSE x \in S : TRUE

\* The part of the state a call threads through its nested calls.
M0 ==
  [control |-> control, peer |-> peer, lag |-> lag, finite |-> finite,
   cfg |-> cfg, dirty |-> dirty, configured |-> configured, snap |-> snap,
   last_stop |-> last_stop, stop_stamp |-> stop_stamp,
   run_number_failed |-> run_number_failed, rpcs |-> {}, err |-> "ok",
   ret |-> <<>>]

Apply(m) ==
  /\ control' = m.control /\ peer' = m.peer /\ lag' = m.lag /\ finite' = m.finite
  /\ cfg' = m.cfg /\ dirty' = m.dirty /\ configured' = m.configured
  /\ snap' = m.snap /\ last_stop' = m.last_stop /\ stop_stamp' = m.stop_stamp
  /\ run_number_failed' = m.run_number_failed

\* connect(): one pass over the slots; "reconnect" marks a second pass made
\* within the same call
DoConnect(m) ==
  IF m.control # NoControl THEN m
  ELSE The({[m EXCEPT !.control = ConnectSlot(slots),
                      !.peer = IF got THEN Connected ELSE @,
                      !.lag = IF got THEN 0 ELSE @,
                      !.finite = IF got THEN FALSE ELSE @,
                      !.rpcs = @ \cup {IF "connect" \in @ THEN "reconnect"
                                       ELSE "connect"}] :
            got \in {ConnectSession(slots) # NoControl}})

\* check_connect that connects again when the first attempt left it disconnected
Guarded_Retries(m) ==
  The({IF c.control = NoControl THEN [c EXCEPT !.err = "ConnectError"] ELSE c :
       c \in {IF DoConnect(m).control = NoControl THEN DoConnect(DoConnect(m))
              ELSE DoConnect(m)}})

\* check_connect: connect if needed, then the body or 'Could not connect to DAQ'
Guarded(m) ==
  The({IF c.control = NoControl THEN [c EXCEPT !.err = "ConnectError"] ELSE c :
       c \in {DoConnect(m)}})

\* Control.stop as the peer takes it
PeerStopped(m, how) ==
  IF m.peer = Running /\ m.lag = 0
    THEN IF how.lg THEN [m EXCEPT !.lag = how.to]
         ELSE [m EXCEPT !.peer = how.to]
  ELSE m

\* DoStop that leaves the begin snapshot as it is
DoStop_KeepsSnapshot(m, how) ==
  The({IF c.err # "ok" THEN c
       ELSE [PeerStopped(c, how) EXCEPT !.last_stop = now, !.stop_stamp = now,
                                        !.rpcs = @ \cup {"stop"}] :
       c \in {Guarded(m)}})

\* DaqLCLS1.stop
DoStop(m, how) ==
  The({IF c.err # "ok" THEN c
       ELSE [PeerStopped(c, how) EXCEPT !.snap = reset_begin, !.last_stop = now,
                                        !.stop_stamp = now,
                                        !.rpcs = @ \cup {"stop"}] :
       c \in {Guarded(m)}})

\* DaqLCLS1.end_run: stop(), then Control.endrun
DoEndRun(m, how) ==
  The({IF s.err # "ok" THEN s
       ELSE [s EXCEPT !.peer = IF @ \in {Open, Running} THEN Configured ELSE @,
                      !.lag = 0, !.finite = FALSE, !.rpcs = @ \cup {"endrun"}] :
       s \in {DoStop(m, how)}})

\* Daq.preconfig through DaqLCLS1.preconfig
DoPreconfig(m, events, duration, record, use_l3t) ==
  [m EXCEPT !.cfg = PreconfigCfg(@, events, duration, record, use_l3t),
            !.dirty = PreconfigDirty(@, record, use_l3t)]

\* DoConfigure with the cached parameters written before the state is looked at
DoConfigure_WriteFirst(m, events, duration, record, use_l3t, accept) ==
  The({IF c.err # "ok" THEN c
       ELSE The({IF StateOf(c.control, c.peer) \notin {"Connected", "Configured"}
                   THEN [p EXCEPT !.err = "StateTransitionError"]
                 ELSE IF check_duration(duration)
                   THEN [c EXCEPT !.err = "DurationError"]
                 ELSE IF accept
                   THEN [p EXCEPT !.peer = Configured, !.dirty = FALSE,
                                  !.configured = TRUE,
                                  !.rpcs = @ \cup {"configure"},
                                  !.ret = <<c.cfg, p.cfg>>]
                 ELSE [p EXCEPT !.rpcs = @ \cup {"configure"},
                                !.err = "ConfigureError"] :
                 p \in {DoPreconfig(c, events, duration, record, use_l3t)}}) :
       c \in {Guarded(m)}})

\* DoConfigure without the test of the state
DoConfigure_AnyState(m, events, duration, record, use_l3t, accept) ==
  The({IF c.err # "ok" THEN c
       ELSE IF check_duration(duration) THEN [c EXCEPT !.err = "DurationError"]
       ELSE The({IF accept
                   THEN [p EXCEPT !.peer = Configured, !.dirty = FALSE,
                                  !.configured = TRUE,
                                  !.rpcs = @ \cup {"configure"},
                                  !.ret = <<c.cfg, p.cfg>>]
                 ELSE [p EXCEPT !.rpcs = @ \cup {"configure"},
                                !.err = "ConfigureError"] :
                 p \in {DoPreconfig(c, events, duration, record, use_l3t)}}) :
       c \in {Guarded(m)}})

\* DaqLCLS1.configure; accept: the peer takes the configure RPC
DoConfigure(m, events, duration, record, use_l3t, accept) ==
  The({IF c.err # "ok" THEN c
       ELSE IF StateOf(c.control, c.peer) \notin {"Connected", "Configured"}
         THEN [c EXCEPT !.err = "StateTransitionError"]
       ELSE IF check_duration(duration) THEN [c EXCEPT !.err = "DurationError"]
       ELSE The({IF accept
                   THEN [p EXCEPT !.peer = Configured, !.dirty = FALSE,
                                  !.configured = TRUE,
                                  !.rpcs = @ \cup {"configure"},
                                  !.ret = <<c.cfg, p.cfg>>]
                 ELSE [p EXCEPT !.rpcs = @ \cup {"configure"},
                                !.err = "ConfigureError"] :
                 p \in {DoPreconfig(c, events, duration, record, use_l3t)}}) :
       c \in {Guarded(m)}})

\* DaqLCLS1.configure with the put at daq.py:1068 as it is spelt: the class has
\* no configred_sig, so after the peer took the RPC and the queued transition
\* was cleared the lookup raises inside the try, and the call ends in
\* 'Failed to configure!' like a configure the peer refused
DoConfigure_AsSpelt(m, events, duration, record, use_l3t, accept) ==
  The({IF c.err # "ok" THEN c
       ELSE IF StateOf(c.control, c.peer) \notin {"Connected", "Configured"}
         THEN [c EXCEPT !.err = "StateTransitionError"]
       ELSE IF check_duration(duration) THEN [c EXCEPT !.err = "DurationError"]
       ELSE The({IF accept
                   THEN [p EXCEPT !.peer = Configured, !.dirty = FALSE,
                                  !.rpcs = @ \cup {"configure"},
                                  !.err = "ConfigureError"]
                 ELSE [p EXCEPT !.rpcs = @ \cup {"configure"},
                                !.err = "ConfigureError"] :
                 p \in {DoPreconfig(c, events, duration, record, use_l3t)}}) :
       c \in {Guarded(m)}})

\* DoKickoff with the duration looked at after the queued configure
DoKickoff_ConfigureFirst(m, duration, accept, helper) ==
  The({IF c.err # "ok" THEN c
       ELSE The({IF k.err # "ok" THEN k
                 ELSE IF check_duration(duration)
                   THEN [k EXCEPT !.err = "DurationError"]
                 ELSE [k EXCEPT !.ret = <<>>] :
                 k \in {IF c.dirty \/ ~c.configured
                          THEN DoConfigure(c, CONFIG_VAL, CONFIG_VAL, "CFG", "CFG",
                                           accept)
                        ELSE c}}) :
       c \in {Guarded(m)}})

\* DoKickoff that configures only a backend that was never configured
DoKickoff_IgnoresQueued(m, duration, accept, helper) ==
  The({IF c.err # "ok" THEN c
       ELSE IF check_duration(duration) THEN [c EXCEPT !.err = "DurationError"]
       ELSE The({IF k.err # "ok" THEN k ELSE [k EXCEPT !.ret = <<>>] :
                 k \in {IF ~c.configured
                          THEN DoConfigure(c, CONFIG_VAL, CONFIG_VAL, "CFG", "CFG",
                                           accept)
                        ELSE c}}) :
       c \in {Guarded(m)}})

\* DoKickoff that looks the run number up again after the helper has failed
DoKickoff_RetriesHelper(m, duration, accept, helper) ==
  The({IF c.err # "ok" THEN c
       ELSE IF check_duration(duration) THEN [c EXCEPT !.err = "DurationError"]
       ELSE The({IF k.err # "ok" THEN k
                 ELSE IF /\ StateOf(k.control, k.peer) = "Configured"
                         /\ ConfigOf(k.configured, k.cfg).record = "True"
                   THEN [k EXCEPT !.rpcs = @ \cup {"run_number"},
                                  !.run_number_failed = @ \/ ~helper,
                                  !.ret = <<>>]
                 ELSE [k EXCEPT !.ret = <<>>] :
                 k \in {IF c.dirty \/ ~c.configured
                          THEN DoConfigure(c, CONFIG_VAL, CONFIG_VAL, "CFG", "CFG",
                                           accept)
                        ELSE c}}) :
       c \in {Guarded(m)}})

\* kickoff, up to the launch of the begin worker: the duration check, the
\* configure of a queued transition, the run number looked up for a recorded
\* run ("run_number" among the calls made; helper: the lookup succeeds), whose
\* failure is passed over and remembered
DoKickoff(m, duration, accept, helper) ==
  The({IF c.err # "ok" THEN c
       ELSE IF check_duration(duration) THEN [c EXCEPT !.err = "DurationError"]
       ELSE The({IF k.err # "ok" THEN k
                 ELSE IF /\ StateOf(k.control, k.peer) = "Configured"
                         /\ ConfigOf(k.configured, k.cfg).record = "True"
                         /\ ~k.run_number_failed
                   THEN [k EXCEPT !.rpcs = @ \cup {"run_number"},
                                  !.run_number_failed = ~helper,
                                  !.ret = <<>>]
                 ELSE [k EXCEPT !.ret = <<>>] :
                 k \in {IF c.dirty \/ ~c.configured
                          THEN DoConfigure(c, CONFIG_VAL, CONFIG_VAL, "CFG", "CFG",
                                           accept)
                        ELSE c}}) :
       c \in {Guarded(m)}})

\* ------------------------------------------------------------------ threads
NoWorker == [pc |-> "none", status |-> "none", events |-> NoneVal,
             duration |-> NoneVal, use_l3t |-> "None", tmo |-> 0, wake |-> 0,
             args |-> [kind |-> "events", val |-> 0]]
NoEnder == [pc |-> "none", status |-> "none"]
Idle == [pc |-> "idle", w |-> 0, e |-> 0, wait |-> FALSE, end_run |-> FALSE,
         req_end_run |-> FALSE, old_record |-> "unset", kickoff_done |-> FALSE,
         timed |-> FALSE]

\* a thread slot can be taken when its thread has ended and nobody holds its token
FreeW(w) == bw[w].pc = "none" /\ ~(caller.pc = "kwait" /\ caller.w = w)
FreeE(e) == ew[e].pc = "none" /\ ~(caller.pc = "ewait" /\ caller.e = e)
\* a thread that ends leaves only its token, and that only while it is waited on
EndW(w, st) ==
  IF caller.pc = "kwait" /\ caller.w = w
    THEN [bw EXCEPT ![w] = [NoWorker EXCEPT !.status = st]]
  ELSE [bw EXCEPT ![w] = NoWorker]
EndE(e, st) ==
  IF caller.pc = "ewait" /\ caller.e = e
    THEN [ew EXCEPT ![e] = [NoEnder EXCEPT !.status = st]]
  ELSE [ew EXCEPT ![e] = NoEnder]

\* a begin RPC is in the peer's hands: the peer serves state queries meanwhile,
\* and takes any other RPC only after it
InFlight == \E w \in 1..NBegin : bw[w].pc = "rpc"
Served(m) == InFlight => m.rpcs = {}

CalledWith(name, m, a) ==
  /\ Served(m)
  /\ op' = name /\ result' = m.err /\ rpcs' = m.rpcs
  /\ retval' = IF m.err = "ok" THEN m.ret ELSE <<>>
  /\ call_args' = a
Called(name, m) == CalledWith(name, m, <<>>)

\* --------------------------------------------------------- caller actions
connect ==
  /\ caller.pc = "idle"
  /\ \E m \in {DoConnect(M0)} : Apply(m) /\ Called("connect", m)
  /\ UNCHANGED <<re_cbid, pre_run_state, caller, bw, ew, fixed, now, begin_rpc>>

preconfig(events, duration, record, use_l3t) ==
  /\ caller.pc = "idle"
  /\ \E m \in {DoPreconfig(M0, events, duration, record, use_l3t)} :
       Apply(m) /\ CalledWith("preconfig", m, <<events, duration, record, use_l3t>>)
  /\ UNCHANGED <<re_cbid, pre_run_state, caller, bw, ew, fixed, now, begin_rpc>>

configure(events, duration, record, use_l3t, accept) ==
  /\ caller.pc = "idle"
  /\ \E m \in {DoConfigure(M0, events, duration, record, use_l3t, accept)} :
       /\ Apply(m)
       /\ CalledWith("configure", m, <<events, duration, record, use_l3t, accept>>)
  /\ UNCHANGED <<re_cbid, pre_run_state, caller, bw, ew, fixed, now, begin_rpc>>

configure_as_spelt(events, duration, record, use_l3t, accept) ==
  /\ caller.pc = "idle"
  /\ \E m \in {DoConfigure_AsSpelt(M0, events, duration, record, use_l3t, accept)} :
       /\ Apply(m)
       /\ CalledWith("configure", m, <<events, duration, record, use_l3t, accept>>)
  /\ UNCHANGED <<re_cbid, pre_run_state, caller, bw, ew, fixed, now, begin_rpc>>

stop(how) ==
  /\ caller.pc = "idle"
  /\ \E m \in {DoStop(M0, how)} : Apply(m) /\ Called("stop", m)
  /\ UNCHANGED <<re_cbid, pre_run_state, caller, bw, ew, fixed, now, begin_rpc>>

end_run(how) ==
  /\ caller.pc = "idle"
  /\ \E m \in {DoEndRun(M0, how)} : Apply(m) /\ Called("end_run", m)
  /\ UNCHANGED <<re_cbid, pre_run_state, caller, bw, ew, fixed, now, begin_rpc>>

\* the begin worker kickoff starts, with the arguments it was given
Launch(w, events, duration, use_l3t) ==
  [bw EXCEPT ![w] = [NoWorker EXCEPT !.pc = "start", !.status = "pending",
                                     !.events = events, !.duration = duration,
                                     !.use_l3t = use_l3t]]

kickoff(events, duration, use_l3t, accept, helper) ==
  /\ caller.pc = "idle"
  /\ \E w \in 1..NBegin :
       /\ FreeW(w) /\ \A v \in 1..(w - 1) : ~FreeW(v)
       /\ \E m \in {DoKickoff(M0, duration, accept, helper)} :
            /\ Apply(m)
            /\ CalledWith("kickoff", m, <<events, duration, use_l3t, accept, helper>>)
            /\ bw' = IF m.err = "ok" THEN Launch(w, events, duration, use_l3t)
                     ELSE bw
  /\ UNCHANGED <<re_cbid, pre_run_state, caller, ew, fixed, now, begin_rpc>>

\* the finally clause of DaqLCLS1.begin
Restore(m, old_record) ==
  IF old_record = "unset" THEN m
  ELSE DoPreconfig(m, CONFIG_VAL, CONFIG_VAL, old_record, "CFG")

\* DaqLCLS1.begin into Daq.begin, up to the wait on the kickoff token; end_run
\* is not among the arguments DaqLCLS1.begin hands to Daq.begin
BeginCall(m0, name, events, duration, record, use_l3t, wt, er, accept, helper) ==
  \E w \in 1..NBegin :
    /\ FreeW(w) /\ \A v \in 1..(w - 1) : ~FreeW(v)
    /\ \E old \in {IF record # "CFG" /\ record # m0.cfg.record
                     THEN m0.cfg.record ELSE "unset"} :
       \E m2 \in {DoKickoff(IF old # "unset"
                              THEN DoPreconfig(m0, CONFIG_VAL, CONFIG_VAL, record,
                                               "CFG")
                            ELSE m0,
                            duration, accept, helper)} :
         IF m2.err = "ok"
           THEN /\ Apply(m2) /\ Served(m2)
                /\ op' = name /\ result' = "pending" /\ rpcs' = m2.rpcs
                /\ retval' = <<>>
                /\ call_args' = <<events, duration, record, use_l3t, wt, er,
                                  accept, helper>>
                /\ bw' = Launch(w, events, duration, use_l3t)
                /\ caller' = [Idle EXCEPT !.pc = "kwait", !.w = w, !.wait = wt,
                                          !.end_run = FALSE, !.req_end_run = er,
                                          !.old_record = old]
         ELSE /\ \E r \in {Restore(m2, old)} : Apply(r)
              /\ CalledWith(name, m2, <<events, duration, record, use_l3t, wt, er,
                                         accept, helper>>)
              /\ UNCHANGED <<bw, caller>>

begin(events, duration, record, use_l3t, wt, er, accept, helper) ==
  /\ caller.pc = "idle"
  /\ BeginCall(M0, "begin", events, duration, record, use_l3t, wt, er, accept, helper)
  /\ UNCHANGED <<re_cbid, pre_run_state, ew, fixed, now, begin_rpc>>

\* the call returns or raises: the finally clause, then the caller is free
Return(m, res) ==
  /\ \E r \in {Restore(m, caller.old_record)} : Apply(r)
  /\ Served(m)
  /\ result' = res /\ rpcs' = rpcs \cup m.rpcs /\ op' = op
  /\ retval' = <<>> /\ call_args' = <<>>
  /\ caller' = Idle

\* kickoff_status.wait(timeout=begin_timeout) ends: the token is finished
\* (then self.wait if wait was asked), failed, or the wait times out
kickoff_waited ==
  /\ caller.pc = "kwait" /\ bw[caller.w].status \in {"finished", "failed"}
  /\ bw' = [bw EXCEPT ![caller.w] = IF @.pc = "none" THEN NoWorker ELSE @]
  /\ IF bw[caller.w].status = "failed" THEN Return(M0, "BeginFailed")
     ELSE IF caller.wait
       THEN /\ caller' = [caller EXCEPT !.pc = "wcall", !.w = 0,
                                        !.kickoff_done = TRUE]
            /\ UNCHANGED <<control, cfg, dirty, configured, snap, last_stop,
                           run_number_failed, peer, lag, finite, stop_stamp,
                           op, result, rpcs, retval, call_args>>
     ELSE Return(M0, "ok")
  /\ UNCHANGED <<re_cbid, pre_run_state, ew, fixed, now, begin_rpc>>

kickoff_timeout ==
  /\ caller.pc = "kwait" /\ bw[caller.w].status = "pending"
  /\ bw' = [bw EXCEPT ![caller.w] = IF @.pc = "none" THEN NoWorker ELSE @]
  /\ Return(M0, "DaqTimeoutError")
  /\ UNCHANGED <<re_cbid, pre_run_state, ew, fixed, now, begin_rpc>>

\* DaqLCLS1.wait as Daq.begin calls it: an end-status worker for a finite run
\* that is Running, an error for an infinite one, nothing to wait for otherwise
wait_call ==
  /\ caller.pc = "wcall"
  /\ \E c \in {Guarded(M0)} :
       IF c.err # "ok" THEN Return(c, c.err) /\ ew' = ew
       ELSE IF StateOf(c.control, c.peer) # "Running"
         THEN /\ ew' = ew
              /\ IF caller.end_run
                   THEN \E how \in StopOutcomes :
                          \E r \in {DoEndRun(c, how)} : Return(r, r.err)
                 ELSE Return(c, "notrunning")
       ELSE IF InfiniteRun(c.snap, ConfigOf(c.configured, c.cfg))
         THEN Return(c, "CannotWait") /\ ew' = ew
       ELSE \E e \in 1..NEnd :
              /\ FreeE(e) /\ \A v \in 1..(e - 1) : ~FreeE(v)
              /\ ew' = [ew EXCEPT ![e] = [pc |-> "end", status |-> "pending"]]
              /\ Apply(c) /\ Served(c)
              /\ caller' = [caller EXCEPT !.pc = "ewait", !.e = e]
              /\ UNCHANGED <<op, result, retval, call_args>>
              /\ rpcs' = rpcs \cup c.rpcs
  /\ UNCHANGED <<re_cbid, pre_run_state, bw, fixed, now, begin_rpc>>

\* status.wait() on the end-status token returns
end_waited ==
  /\ caller.pc = "ewait" /\ ew[caller.e].status = "finished"
  /\ ew' = [ew EXCEPT ![caller.e] = IF @.pc = "none" THEN NoEnder ELSE @]
  /\ IF caller.end_run
       THEN \E how \in StopOutcomes :
              \E r \in {DoEndRun(M0, how)} : Return(r, r.err)
     ELSE Return(M0, "waited")
  /\ UNCHANGED <<re_cbid, pre_run_state, bw, fixed, now, begin_rpc>>

\* DaqLCLS1.wait(timeout, end_run) called by the user: timed says a timeout
\* was given
wait(timed, er) ==
  /\ caller.pc = "idle"
  /\ \E c \in {Guarded(M0)} :
       IF c.err # "ok"
         THEN /\ Apply(c) /\ CalledWith("wait", c, <<timed, er>>)
              /\ UNCHANGED <<ew, caller>>
       ELSE IF StateOf(c.control, c.peer) # "Running"
         THEN /\ \E how \in StopOutcomes :
                   \E r \in {IF er THEN DoEndRun(c, how) ELSE c} :
                     Apply(r) /\ CalledWith("wait", r, <<timed, er>>)
              /\ UNCHANGED <<ew, caller>>
       ELSE IF InfiniteRun(c.snap, ConfigOf(c.configured, c.cfg))
         THEN /\ Apply(c)
              /\ CalledWith("wait", [c EXCEPT !.err = "CannotWait"], <<timed, er>>)
              /\ UNCHANGED <<ew, caller>>
       ELSE \E e \in 1..NEnd :
              /\ FreeE(e) /\ \A v \in 1..(e - 1) : ~FreeE(v)
              /\ ew' = [ew EXCEPT ![e] = [pc |-> "end", status |-> "pending"]]
              /\ Apply(c)
              /\ CalledWith("wait", [c EXCEPT !.err = "pending"], <<timed, er>>)
              /\ caller' = [Idle EXCEPT !.pc = "ewait", !.e = e, !.end_run = er,
                                        !.timed = timed]
  /\ UNCHANGED <<re_cbid, pre_run_state, bw, fixed, now, begin_rpc>>

\* status.wait(timeout=timeout) gives up: DaqTimeoutError leaves wait before
\* its "if end_run"; the end-status worker goes on
wait_timeout ==
  /\ caller.pc = "ewait" /\ caller.timed /\ ew[caller.e].status = "pending"
  /\ ew' = [ew EXCEPT ![caller.e] = IF @.pc = "none" THEN NoEnder ELSE @]
  /\ caller' = Idle
  /\ result' = "DaqTimeoutError" /\ rpcs' = {}
  /\ UNCHANGED <<prog, bw, fixed, peer, lag, finite, now, op, retval, call_args,
                 stop_stamp, begin_rpc>>

\* KeyboardInterrupt while Daq.begin is blocked: end_run if Daq.begin was asked
\* to end the run, stop otherwise
interrupt(how) ==
  /\ caller.pc \in {"kwait", "wcall", "ewait"} /\ op # "wait"
  /\ \E m \in {IF caller.end_run THEN DoEndRun(M0, how) ELSE DoStop(M0, how)} :
       /\ \E r \in {Restore(m, caller.old_record)} : Apply(r)
       /\ Served(m)
       /\ result' = IF m.err = "ok" THEN "interrupted" ELSE m.err
       /\ rpcs' = m.rpcs /\ op' = op /\ retval' = <<>> /\ call_args' = <<>>
       /\ caller' = Idle
  /\ bw' = [w \in 1..NBegin |-> IF bw[w].pc = "none" THEN NoWorker ELSE bw[w]]
  /\ ew' = [e \in 1..NEnd |-> IF ew[e].pc = "none" THEN NoEnder ELSE ew[e]]
  /\ UNCHANGED <<re_cbid, pre_run_state, fixed, now, begin_rpc>>

\* disconnect(): ends the run of a live session, drops the handle, and writes
\* the class defaults back through preconfig
DoDisconnect(m, how) ==
  The({[DoPreconfig([e EXCEPT !.control = NoControl,
                              !.peer = IF m.control # NoControl THEN Disconnected
                                       ELSE @,
                              !.lag = IF m.control # NoControl THEN 0 ELSE @,
                              !.rpcs = IF m.control # NoControl
                                         THEN @ \cup {"disconnect"} ELSE @],
                    default_config.events, default_config.duration,
                    default_config.record, default_config.use_l3t)
          EXCEPT !.configured = FALSE] :
       e \in {IF m.control # NoControl THEN DoEndRun(m, how) ELSE m}})

disconnect(how) ==
  /\ caller.pc = "idle"
  /\ \E m \in {DoDisconnect(M0, how)} : Apply(m) /\ Called("disconnect", m)
  /\ UNCHANGED <<re_cbid, pre_run_state, caller, bw, ew, fixed, now, begin_rpc>>

\* stage(): caches the state, subscribes to the run engine, ends the run
stage(how) ==
  /\ caller.pc = "idle"
  /\ pre_run_state' = state
  /\ re_cbid' = TRUE
  /\ \E m \in {DoEndRun(M0, how)} : Apply(m) /\ Called("stage", m)
  /\ UNCHANGED <<caller, bw, ew, fixed, now, begin_rpc>>

\* unstage that goes back to an infinite run whatever stage saw
unstage_always_begins(how, accept, helper) ==
  /\ caller.pc = "idle"
  /\ re_cbid' = FALSE
  /\ \E m \in {IF state \in {"Open", "Running"} THEN DoEndRun(M0, how) ELSE M0} :
       IF m.err = "ok"
         THEN BeginCall(m, "unstage", 0, CONFIG_VAL, "CFG", "CFG", FALSE, FALSE,
                        accept, helper)
       ELSE Apply(m) /\ Called("unstage", m) /\ UNCHANGED <<caller, bw>>
  /\ UNCHANGED <<pre_run_state, ew, fixed, now, begin_rpc>>

\* unstage(): unsubscribes, ends a run still Open or Running, and goes back to
\* an infinite run (begin_infinite: begin(events=0)) if stage saw Running
unstage(how, accept, helper) ==
  /\ caller.pc = "idle"
  /\ re_cbid' = FALSE
  /\ \E m \in {IF state \in {"Open", "Running"} THEN DoEndRun(M0, how) ELSE M0} :
       IF m.err = "ok" /\ pre_run_state = "Running"
         THEN BeginCall(m, "unstage", 0, CONFIG_VAL, "CFG", "CFG", FALSE, FALSE,
                        accept, helper)
       ELSE Apply(m) /\ Called("unstage", m) /\ UNCHANGED <<caller, bw>>
  /\ UNCHANGED <<pre_run_state, ew, fixed, now, begin_rpc>>

\* ------------------------------------------------- begin worker (start_thread)
WorkerVars == <<cfg, dirty, configured, run_number_failed, re_cbid, pre_run_state,
                caller, ew, fixed, now, op, result, rpcs, retval, call_args>>

\* worker_start that goes to the poll without stopping anything
worker_start_no_stop(w, how) ==
  /\ bw[w].pc = "start"
  /\ \E m \in {M0} : Apply(m) /\ Served(m)
  /\ bw' = [bw EXCEPT ![w].pc = "poll", ![w].tmo = PollIters]
  /\ UNCHANGED <<re_cbid, pre_run_state, caller, ew, fixed, now, op, result, rpcs,
                 retval, call_args, begin_rpc>>

\* if self.state in ('Open', 'Running'): self.stop()
worker_start(w, how) ==
  /\ bw[w].pc = "start"
  /\ \E m \in {IF state \in {"Open", "Running"} THEN DoStop(M0, how) ELSE M0} :
       Apply(m) /\ Served(m)
  /\ bw' = [bw EXCEPT ![w].pc = "poll", ![w].tmo = PollIters]
  /\ UNCHANGED <<re_cbid, pre_run_state, caller, ew, fixed, now, op, result, rpcs,
                 retval, call_args, begin_rpc>>

\* one turn of: while tmo > 0: if self.state in ('Configured', 'Open'): break
\*                             else: tmo -= dt
worker_poll(w) ==
  /\ bw[w].pc = "poll"
  /\ bw' = IF bw[w].tmo > 0 /\ state \notin {"Configured", "Open"}
             THEN [bw EXCEPT ![w].tmo = @ - 1]
           ELSE [bw EXCEPT ![w].pc = "check", ![w].tmo = 0]
  /\ UNCHANGED <<control, snap, last_stop, peer, lag, finite, stop_stamp, begin_rpc>>
  /\ UNCHANGED WorkerVars

\* control.begin(**begin_args) is issued: the peer opens the run; a begin the
\* peer does not take raises in the worker, which ends there
BeginRpc(w, args) ==
  IF control # NoControl /\ peer \in {Configured, Open} /\ lag = 0
    THEN /\ ~InFlight
         /\ peer' = Open
         /\ finite' = FiniteArgs(args)
         /\ begin_rpc' = [gap |-> IF stop_stamp = NoneVal THEN NoneVal
                                    ELSE now - stop_stamp,
                          kind |-> args.kind, val |-> args.val]
         /\ bw' = [bw EXCEPT ![w].pc = "rpc", ![w].args = args]
  ELSE /\ bw' = EndW(w, "pending")
       /\ UNCHANGED <<peer, finite, begin_rpc>>

\* after the poll: begin when the peer is ready, once BEGIN_THROTTLE has passed
\* since _last_stop; else status.set_exception
worker_check(w) ==
  /\ bw[w].pc = "check"
  /\ IF state \in {"Configured", "Open"}
       THEN LET args == begin_args(bw[w].events, bw[w].duration, bw[w].use_l3t,
                                   configured, config)
                dt == now - last_stop
                tmo == BEGIN_THROTTLE - dt
            IN IF tmo > 0
                 THEN /\ bw' = [bw EXCEPT ![w].pc = "sleep", ![w].wake = now + tmo,
                                          ![w].args = args]
                      /\ UNCHANGED <<peer, finite, begin_rpc>>
               ELSE BeginRpc(w, args)
     ELSE /\ bw' = EndW(w, "failed")
          /\ UNCHANGED <<peer, finite, begin_rpc>>
  /\ UNCHANGED <<control, snap, last_stop, lag, stop_stamp>>
  /\ UNCHANGED WorkerVars

\* time.sleep(tmo) is over
worker_wake(w) ==
  /\ bw[w].pc = "sleep" /\ now >= bw[w].wake
  /\ BeginRpc(w, bw[w].args)
  /\ UNCHANGED <<control, snap, last_stop, lag, stop_stamp>>
  /\ UNCHANGED WorkerVars

\* control.begin returns with the peer Running; the worker caches what this
\* begin was told and marks the kickoff token finished
worker_begun(w) ==
  /\ bw[w].pc = "rpc"
  /\ peer' = Running
  /\ snap' = [events |-> bw[w].events, duration |-> bw[w].duration,
              use_l3t |-> bw[w].use_l3t]
  /\ bw' = EndW(w, "finished")
  /\ UNCHANGED <<control, last_stop, lag, finite, stop_stamp, begin_rpc>>
  /\ UNCHANGED WorkerVars

\* --------------------------------------------- end-status worker (finish_thread)
\* control.end() that returns while the peer still takes data
ender_return_early(e) ==
  /\ ew[e].pc = "end" /\ ~InFlight
  /\ ew' = [ew EXCEPT ![e].pc = "post"]
  /\ UNCHANGED <<prog, caller, bw, fixed, peer, lag, finite, now, op, result, rpcs,
                 retval, call_args, stop_stamp, begin_rpc>>

\* control.end() returns once the peer is not taking data (or raises the
\* RuntimeError of a peer that was not running, which is passed over)
ender_return(e) ==
  /\ ew[e].pc = "end" /\ ~Acquiring(peer, lag) /\ ~InFlight
  /\ ew' = [ew EXCEPT ![e].pc = "post"]
  /\ UNCHANGED <<prog, caller, bw, fixed, peer, lag, finite, now, op, result, rpcs,
                 retval, call_args, stop_stamp, begin_rpc>>

\* self._last_stop = time.time(); self._reset_begin(); status.set_finished()
ender_post(e) ==
  /\ ew[e].pc = "post"
  /\ last_stop' = now
  /\ snap' = reset_begin
  /\ ew' = EndE(e, "finished")
  /\ UNCHANGED <<control, cfg, dirty, configured, re_cbid, pre_run_state,
                 run_number_failed, caller, bw, fixed, peer, lag, finite, now,
                 op, result, rpcs, retval, call_args, stop_stamp, begin_rpc>>

\* ------------------------------------------------------------ peer and clock
\* the stopped peer reports its new state
peer_settle ==
  /\ lag # 0
  /\ peer' = lag /\ lag' = 0 /\ finite' = FALSE
  /\ UNCHANGED <<prog, caller, bw, ew, fixed, now, op, result, rpcs, retval, call_args,
                 stop_stamp, begin_rpc>>

\* a finite acquisition is over
peer_finish ==
  /\ Acquiring(peer, lag) /\ finite
  /\ peer' = Configured /\ finite' = FALSE
  /\ UNCHANGED <<prog, caller, bw, ew, fixed, lag, now, op, result, rpcs, retval, call_args,
                 stop_stamp, begin_rpc>>

tick ==
  /\ now < MaxTime
  /\ now' = now + 1
  /\ UNCHANGED <<prog, caller, bw, ew, fixed, peer, lag, finite, op, result, rpcs,
                 retval, call_args, stop_stamp, begin_rpc>>

\* ------------------------------------------------- DaqLCLS2: status tokens
\* the vocabularies of the state and transition enumerations, by ordinal
Lcls2States == 0..2
Lcls2Transitions == 0..2

\* the signals of DaqLCLS2 besides state_sig and transition_sig, as declared:
\* every value None (configured_sig: False)
NoInfo == [k |-> "none", n |-> "", i |-> 0]
NoSignals ==
  [last_err |-> NoInfo, last_warning |-> NoInfo, last_file_report |-> NoInfo,
   step_done |-> NoInfo, transition_elapsed |-> NoInfo, transition_total |-> NoInfo,
   config_alias |-> NoInfo, recording |-> NoInfo, bypass_activedet |-> NoInfo,
   experiment_name |-> NoInfo, run_number |-> NoInfo, last_run_number |-> NoInfo,
   configured |-> FALSE]

\* a call of check_state or check_transition in progress: where it is, the
\* value it was handed and the partner value it read
NoCall == [pc |-> "none", value |-> NoneVal, partner |-> NoneVal]

NoToken ==
  [pc |-> "none", S |-> {}, T |-> {}, check_now |-> FALSE, timed |-> FALSE,
   last_state |-> NoneVal, last_transition |-> NoneVal, status |-> "none",
   state_cbid |-> FALSE, transition_cbid |-> FALSE,
   \* the last value of each signal the token was handed as a new one
   seen_state |-> NoneVal, seen_transition |-> NoneVal,
   \* a callback found the token done; an exception left a callback
   late |-> FALSE, raised |-> FALSE,
   \* lock, and the calls of the two callbacks that are in progress
   lock |-> "free", cs |-> NoCall, ct |-> NoCall]

\* DeviceStatus.set_finished: a status that is done raises InvalidState
set_finished(tk) ==
  IF tk.status = "pending" THEN [tk EXCEPT !.status = "done"]
  ELSE [tk EXCEPT !.raised = TRUE]

\* success() with the InvalidState of a done status left to propagate
success_uncaught(tk) ==
  set_finished(tk)

\* success(): set_finished, passing over InvalidState
success(tk) ==
  LET r == set_finished(tk)
  IN IF r.raised /\ ~tk.raised THEN [tk EXCEPT !.late = TRUE] ELSE r

\* check_state(value, old_value)
check_state(tk, value, old_value) ==
  IF value = old_value /\ ~tk.check_now THEN tk
  ELSE IF value \in tk.S /\ tk.last_transition \in tk.T THEN success(tk)
  ELSE [tk EXCEPT !.last_state = value]

\* check_transition that does not keep the transition it was handed
check_transition_forgets(tk, value, old_value) ==
  IF value = old_value /\ ~tk.check_now THEN tk
  ELSE IF value \in tk.T /\ tk.last_state \in tk.S THEN success(tk)
  ELSE tk

\* check_transition(value, old_value)
check_transition(tk, value, old_value) ==
  IF value = old_value /\ ~tk.check_now THEN tk
  ELSE IF value \in tk.T /\ tk.last_state \in tk.S THEN success(tk)
  ELSE [tk EXCEPT !.last_transition = value]

\* a signal runs the token's callback, if it is subscribed
DeliverState(tk, value, old_value) ==
  IF tk.state_cbid
    THEN [check_state(tk, value, old_value) EXCEPT
            !.seen_state = IF tk.check_now \/ value # old_value THEN value ELSE @]
  ELSE tk
DeliverTransition(tk, value, old_value) ==
  IF tk.transition_cbid
    THEN [check_transition(tk, value, old_value) EXCEPT
            !.seen_transition = IF tk.check_now \/ value # old_value THEN value ELSE @]
  ELSE tk

\* get_status_for, up to state_sig.subscribe(check_state, run=check_now); a
\* field left out is the set {None}
get_status_for(S, T, cn, timed) ==
  /\ tok.pc = "none"
  /\ LET tk == [NoToken EXCEPT !.pc = "sub", !.S = S, !.T = T, !.check_now = cn,
                               !.timed = timed, !.status = "pending",
                               !.state_cbid = TRUE]
     IN tok' = IF cn THEN DeliverState(tk, state_sig, state_sig) ELSE tk
  /\ UNCHANGED <<lcls1, quiet, state_sig, transition_sig, mon>>

\* transition_sig.subscribe(check_transition, run=check_now), add_callback
subscribe_transition ==
  /\ tok.pc = "sub"
  /\ LET tk == [tok EXCEPT !.pc = "live", !.transition_cbid = TRUE]
     IN tok' = IF tok.check_now THEN DeliverTransition(tk, transition_sig, transition_sig)
               ELSE tk
  /\ UNCHANGED <<lcls1, quiet, state_sig, transition_sig, mon>>

\* clean_up, run as the callback of a status that is done
clean_up ==
  /\ tok.pc = "live" /\ tok.status \in {"done", "timeout"}
  /\ tok.state_cbid \/ tok.transition_cbid
  /\ tok' = [tok EXCEPT !.state_cbid = FALSE, !.transition_cbid = FALSE]
  /\ UNCHANGED <<lcls1, quiet, state_sig, transition_sig, mon>>

\* the timeout of the status runs out
token_timeout ==
  /\ tok.timed /\ tok.status = "pending"
  /\ tok' = [tok EXCEPT !.status = "timeout"]
  /\ UNCHANGED <<lcls1, quiet, state_sig, transition_sig, mon>>

\* the token is dropped by who asked for it
token_dropped ==
  /\ tok.pc = "live" /\ tok.status \in {"done", "timeout"}
  /\ caller.pc = "idle"
  /\ ~tok.state_cbid /\ ~tok.transition_cbid
  /\ tok' = NoToken
  /\ UNCHANGED <<lcls1, quiet, state_sig, transition_sig, mon>>

\* The listener as the tokens see it: the puts to transition_sig and state_sig,
\* one at a time, of messages whose other fields repeat what the other signals
\* hold (monitor_info below is the whole body, for any message).
\* _monitor_thread, a 'progress' message: the transition is put
monitor_progress(t) ==
  /\ mon.pc = "idle"
  /\ transition_sig' = t
  /\ tok' = DeliverTransition(tok, t, transition_sig)
  /\ UNCHANGED <<lcls1, quiet, state_sig, mon>>

\* _monitor_thread, a normal status: the transition is put, then the state
monitor_status(t, st) ==
  /\ mon.pc = "idle"
  /\ transition_sig' = t
  /\ tok' = DeliverTransition(tok, t, transition_sig)
  /\ mon' = [pc |-> "state", val |-> st]
  /\ UNCHANGED <<lcls1, quiet, state_sig>>

monitor_state ==
  /\ mon.pc = "state"
  /\ state_sig' = mon.val
  /\ tok' = DeliverState(tok, mon.val, state_sig)
  /\ mon' = [pc |-> "idle", val |-> 0]
  /\ UNCHANGED <<lcls1, quiet, transition_sig>>

\* ----------------------------- DaqLCLS2: the two callbacks, step by step
\* which is "state" for check_state and "transition" for check_transition
CallOf(tk, which) == IF which = "state" THEN tk.cs ELSE tk.ct
WithCall(tk, which, c) ==
  IF which = "state" THEN [tk EXCEPT !.cs = c] ELSE [tk EXCEPT !.ct = c]
At(tk, which, pc) == WithCall(tk, which, [CallOf(tk, which) EXCEPT !.pc = pc])

\* a signal is put and calls the callback on the putting thread: the test
\* 'value == old_value and not check_now' and its return
cb_call(which, value) ==
  /\ tok.pc = "live" /\ CallOf(tok, which).pc = "none"
  /\ IF which = "state" THEN tok.state_cbid ELSE tok.transition_cbid
  /\ \E old \in {IF which = "state" THEN state_sig ELSE transition_sig} :
       tok' = WithCall(tok, which,
                       [pc |-> IF value = old /\ ~tok.check_now
                                 THEN "skipped" ELSE "lock",
                        value |-> value, partner |-> NoneVal])
  /\ state_sig' = IF which = "state" THEN value ELSE state_sig
  /\ transition_sig' = IF which = "transition" THEN value ELSE transition_sig
  /\ UNCHANGED <<lcls1, quiet, mon>>

\* 'with lock:' entered without waiting for the lock
cb_acquire_unlocked(which) ==
  /\ CallOf(tok, which).pc = "lock"
  /\ tok' = At([tok EXCEPT !.lock = which], which, "read")
  /\ UNCHANGED <<lcls1, quiet, state_sig, transition_sig, mon>>

\* 'with lock:' entered
cb_acquire(which) ==
  /\ CallOf(tok, which).pc = "lock" /\ tok.lock = "free"
  /\ tok' = At([tok EXCEPT !.lock = which], which, "read")
  /\ UNCHANGED <<lcls1, quiet, state_sig, transition_sig, mon>>

\* the condition reads the partner's last value
cb_read(which) ==
  /\ CallOf(tok, which).pc = "read"
  /\ tok' = WithCall(tok, which,
                     [CallOf(tok, which) EXCEPT
                        !.pc = "decide",
                        !.partner = IF which = "state" THEN tok.last_transition
                                    ELSE tok.last_state])
  /\ UNCHANGED <<lcls1, quiet, state_sig, transition_sig, mon>>

\* success(), or the value is kept as the last one
cb_decide(which) ==
  /\ CallOf(tok, which).pc = "decide"
  /\ \E c \in {CallOf(tok, which)} :
       tok' = At(IF which = "state"
                   THEN IF c.value \in tok.S /\ c.partner \in tok.T
                          THEN success(tok)
                        ELSE [tok EXCEPT !.last_state = c.value]
                 ELSE IF c.value \in tok.T /\ c.partner \in tok.S
                        THEN success(tok)
                      ELSE [tok EXCEPT !.last_transition = c.value],
                 which, "unlock")
  /\ UNCHANGED <<lcls1, quiet, state_sig, transition_sig, mon>>

\* the lock is released and the callback returns
cb_release(which) ==
  /\ CallOf(tok, which).pc = "unlock"
  /\ tok' = At([tok EXCEPT !.lock = "free"], which, "returned")
  /\ UNCHANGED <<lcls1, quiet, state_sig, transition_sig, mon>>

\* ------------------------------------------------- DaqLCLS2: run control
\* ControlDef.states and ControlDef.transitions, in order; an enumeration made
\* from a list of names numbers them from 1
PsdaqStates ==
  <<"reset", "unallocated", "allocated", "connected", "configured", "starting",
    "paused", "running">>
PsdaqTransitions ==
  <<"rollcall", "alloc", "dealloc", "connect", "disconnect", "configure",
    "unconfigure", "beginrun", "endrun", "beginstep", "endstep", "enable",
    "disable", "slowupdate", "reset">>

\* HelpfulIntEnum.from_any, include and exclude, on each enumeration
state_from_any(name) == CHOOSE i \in DOMAIN PsdaqStates : PsdaqStates[i] = name
transition_from_any(name) ==
  CHOOSE i \in DOMAIN PsdaqTransitions : PsdaqTransitions[i] = name
state_include(names) == {state_from_any(n) : n \in names}
transition_exclude(names) ==
  DOMAIN PsdaqTransitions \ {transition_from_any(n) : n \in names}

\* HelpfulIntEnum on any vocabulary.  An identifier is a name or an ordinal.
Name(n) == [k |-> "name", n |-> n, i |-> 0]
Ordinal(i) == [k |-> "ord", n |-> "", i |-> i]
Members(vocab) == DOMAIN vocab
\* self[identifier]: the lookup by name, KeyError for anything else
by_name(vocab, id) ==
  IF id.k = "name" /\ \E i \in DOMAIN vocab : vocab[i] = id.n
    THEN [err |-> "ok", val |-> CHOOSE i \in DOMAIN vocab : vocab[i] = id.n]
  ELSE [err |-> "KeyError", val |-> 0]
\* self(identifier): the lookup by value
by_value(vocab, id) ==
  IF id.k = "ord" /\ id.i \in DOMAIN vocab
    THEN [err |-> "ok", val |-> id.i]
  ELSE [err |-> "ValueError", val |-> 0]
from_any(vocab, id) ==
  IF by_name(vocab, id).err = "KeyError" THEN by_value(vocab, id)
  ELSE by_name(vocab, id)
include(vocab, ids) ==
  IF \E id \in ids : from_any(vocab, id).err # "ok"
    THEN [err |-> "ValueError", val |-> {}]
  ELSE [err |-> "ok", val |-> {from_any(vocab, id).val : id \in ids}]
exclude(vocab, ids) ==
  IF include(vocab, ids).err # "ok" THEN include(vocab, ids)
  ELSE [err |-> "ok", val |-> Members(vocab) \ include(vocab, ids).val]

\* The helpers as they are declared: plain functions of (self, argument) in
\* the class body, so looked up on the enumeration class they are unbound and
\* the one argument given binds to self.
Unbound(nparams, nargs) == IF nargs < nparams THEN "TypeError" ELSE "ok"
include_as_spelt(vocab, ids) ==
  IF Unbound(2, 1) # "ok" THEN [err |-> Unbound(2, 1), val |-> {}]
  ELSE include(vocab, ids)
exclude_as_spelt(vocab, ids) ==
  IF Unbound(2, 1) # "ok" THEN [err |-> Unbound(2, 1), val |-> {}]
  ELSE exclude(vocab, ids)

\* what a DaqLCLS2 call leaves alone
Lcls2Rest == <<control, cfg, dirty, configured, snap, last_stop, re_cbid,
               pre_run_state, run_number_failed, bw, ew, slots, peer, lag, finite,
               now, stop_stamp, begin_rpc>>

Lcls2Called(name, res, requests, a) ==
  /\ op' = name /\ result' = res /\ rpcs' = requests
  /\ retval' = <<>> /\ call_args' = a

\* get_status_for up to the first subscription, and its second subscription
StatusFor(S, T, cn, timed) ==
  The({IF cn THEN DeliverState(tk, state_sig, state_sig) ELSE tk :
       tk \in {[NoToken EXCEPT !.pc = "sub", !.S = S, !.T = T, !.check_now = cn,
                               !.timed = timed, !.status = "pending",
                               !.state_cbid = TRUE]}})
Subscribed(t) ==
  The({IF t.check_now THEN DeliverTransition(tk, transition_sig, transition_sig)
       ELSE tk :
       tk \in {[t EXCEPT !.pc = "live", !.transition_cbid = TRUE]}})

\* DaqLCLS2.stop with the state test left out
lcls2_stop_untested ==
  /\ caller.pc = "idle"
  /\ Lcls2Called("stop", "ok", {"endstep"}, <<>>)
  /\ UNCHANGED <<Lcls2Rest, quiet, caller, state_sig, transition_sig, mon, tok>>

\* DaqLCLS2.stop: setTransition('endstep') when paused or running
lcls2_stop ==
  /\ caller.pc = "idle"
  /\ Lcls2Called("stop", "ok",
                 IF state_sig \in state_include({"paused", "running"})
                   THEN {"endstep"} ELSE {}, <<>>)
  /\ UNCHANGED <<Lcls2Rest, quiet, caller, state_sig, transition_sig, mon, tok>>

\* DaqLCLS2.end_run: setTransition('endrun') when starting, paused or running
EndRunRequests ==
  IF state_sig \in state_include({"starting", "paused", "running"})
    THEN {"endrun"} ELSE {}

lcls2_end_run ==
  /\ caller.pc = "idle"
  /\ Lcls2Called("end_run", "ok", EndRunRequests, <<>>)
  /\ UNCHANGED <<Lcls2Rest, quiet, caller, state_sig, transition_sig, mon, tok>>

\* DaqLCLS2.kickoff without the 'already running' test
lcls2_kickoff_unchecked ==
  /\ caller.pc = "idle"
  /\ IF state_sig < state_from_any("connected")
       THEN /\ Lcls2Called("kickoff", "NotReady", {}, <<>>)
            /\ UNCHANGED <<caller, tok>>
     ELSE /\ tok.pc = "none"
          /\ tok' = StatusFor({state_from_any("running")}, {NoneVal}, TRUE, TRUE)
          /\ caller' = [Idle EXCEPT !.pc = "kickoff2"]
          /\ Lcls2Called("kickoff", "pending", {}, <<>>)
  /\ UNCHANGED <<Lcls2Rest, quiet, state_sig, transition_sig, mon>>

\* DaqLCLS2.kickoff, up to the first subscription of its token
lcls2_kickoff ==
  /\ caller.pc = "idle"
  /\ IF state_sig < state_from_any("connected")
       THEN /\ Lcls2Called("kickoff", "NotReady", {}, <<>>)
            /\ UNCHANGED <<caller, tok>>
     ELSE IF state_sig = state_from_any("running")
       THEN /\ Lcls2Called("kickoff", "AlreadyRunning", {}, <<>>)
            /\ UNCHANGED <<caller, tok>>
     ELSE /\ tok.pc = "none"
          /\ tok' = StatusFor({state_from_any("running")}, {NoneVal}, TRUE, TRUE)
          /\ caller' = [Idle EXCEPT !.pc = "kickoff2"]
          /\ Lcls2Called("kickoff", "pending", {}, <<>>)
  /\ UNCHANGED <<Lcls2Rest, quiet, state_sig, transition_sig, mon>>

\* the rest of kickoff: the second subscription, then setState('running')
lcls2_kickoff_set ==
  /\ caller.pc = "kickoff2" /\ tok.pc = "sub"
  /\ tok' = Subscribed(tok)
  /\ caller' = Idle
  /\ Lcls2Called(op, "ok", {"setState"}, <<>>)
  /\ UNCHANGED <<Lcls2Rest, quiet, state_sig, transition_sig, mon>>

\* DaqLCLS2.wait(timeout, end_run): get_done_status(timeout), then its wait()
lcls2_wait(timed, er) ==
  /\ caller.pc = "idle" /\ tok.pc = "none"
  /\ tok' = StatusFor({NoneVal},
                      transition_exclude({"beginrun", "beginstep", "enable"}),
                      TRUE, timed)
  /\ caller' = [Idle EXCEPT !.pc = "wait2", !.end_run = er, !.timed = timed]
  /\ Lcls2Called("wait", "pending", {}, <<timed, er>>)
  /\ UNCHANGED <<Lcls2Rest, quiet, state_sig, transition_sig, mon>>

lcls2_wait_sub ==
  /\ caller.pc = "wait2" /\ tok.pc = "sub"
  /\ tok' = Subscribed(tok)
  /\ caller' = [caller EXCEPT !.pc = "dwait"]
  /\ UNCHANGED <<Lcls2Rest, quiet, op, result, rpcs, retval, call_args, state_sig,
                 transition_sig, mon>>

\* done_status.wait() ends: it returns when the status is done (then end_run
\* if asked), and raises the exception of a status that timed out
lcls2_wait_ends ==
  /\ caller.pc = "dwait" /\ tok.status \in {"done", "timeout"}
  /\ IF tok.status = "done"
       THEN Lcls2Called(op, "ok", IF caller.end_run THEN EndRunRequests ELSE {},
                        call_args)
     ELSE Lcls2Called(op, "StatusTimeoutError", {}, call_args)
  /\ caller' = Idle
  /\ UNCHANGED <<Lcls2Rest, quiet, state_sig, transition_sig, mon, tok>>

\* ------------------------------------------------------------ specification
AcceptFirst == [p \in Platforms |-> IF p = 0 THEN "accept" ELSE "refuse"]

InitWith(profiles) ==
  /\ control = NoControl /\ cfg = default_config /\ dirty = TRUE
  /\ configured = FALSE /\ snap = reset_begin /\ last_stop = 0
  /\ re_cbid = FALSE /\ pre_run_state = "None" /\ run_number_failed = FALSE
  /\ caller = Idle
  /\ bw = [w \in 1..NBegin |-> NoWorker]
  /\ ew = [e \in 1..NEnd |-> NoEnder]
  /\ slots \in profiles
  /\ peer = Disconnected /\ lag = 0 /\ finite = FALSE
  /\ now = BEGIN_THROTTLE
  /\ op = "init" /\ result = "ok" /\ rpcs = {} /\ retval = <<>> /\ call_args = <<>>
  /\ stop_stamp = NoneVal
  /\ begin_rpc = [gap |-> NoneVal, kind |-> "none", val |-> 0]
  /\ state_sig = 0 /\ transition_sig = 0
  /\ mon = [pc |-> "idle", val |-> 0]
  /\ tok = NoToken
  /\ signals = NoSignals /\ destroyed = FALSE

Init == InitWith({AcceptFirst})

Threads ==
  \/ \E w \in 1..NBegin : \E how \in StopOutcomes : worker_start(w, how)
  \/ \E w \in 1..NBegin : worker_poll(w)
  \/ \E w \in 1..NBegin : worker_check(w)
  \/ \E w \in 1..NBegin : worker_wake(w)
  \/ \E w \in 1..NBegin : worker_begun(w)
  \/ \E e \in 1..NEnd : ender_return(e)
  \/ \E e \in 1..NEnd : ender_post(e)
  \/ peer_settle
  \/ peer_finish
  \/ tick

Blocked ==
  \/ kickoff_waited
  \/ kickoff_timeout
  \/ wait_call
  \/ end_waited
  \/ \E how \in StopOutcomes : interrupt(how)

\* the event counts the run-control specification configures with
RunEvents == {CONFIG_VAL, 1}

Next ==
  \/ connect
  \/ \E e \in RunEvents, accept \in BOOLEAN :
       configure(e, CONFIG_VAL, "CFG", "CFG", accept)
  \/ \E how \in StopOutcomes : stop(how)
  \/ \E how \in StopOutcomes : end_run(how)
  \/ \E e \in {CONFIG_VAL, 0} : kickoff(e, CONFIG_VAL, "CFG", TRUE, TRUE)
  \/ \E wt \in BOOLEAN, er \in BOOLEAN :
       begin(CONFIG_VAL, CONFIG_VAL, "CFG", "CFG", wt, er, TRUE, TRUE)
  \/ Blocked
  \/ Threads

Spec == Init /\ [][Next]_vars

\* The configuration calls alone, over every kind of argument.
EventsArgs == {CONFIG_VAL, NoneVal, 2}
DurationArgs == {CONFIG_VAL, NoneVal, 0, 2}
RecordArgs == {"CFG", "True"}
L3tArgs == {"CFG", "True"}

NextCfg ==
  \/ connect
  \/ \E how \in StopOutcomes : disconnect(how)
  \/ \E e \in EventsArgs, d \in DurationArgs, r \in RecordArgs, u \in L3tArgs :
       preconfig(e, d, r, u)
  \/ \E e \in EventsArgs, d \in DurationArgs, r \in RecordArgs, u \in L3tArgs,
         accept \in BOOLEAN :
       configure(e, d, r, u, accept)

SpecCfg == Init /\ [][NextCfg]_vars

\* The same calls with configure as it is spelt.
NextCfgAsSpelt ==
  \/ connect
  \/ \E how \in StopOutcomes : disconnect(how)
  \/ \E e \in EventsArgs, d \in DurationArgs, r \in RecordArgs, u \in L3tArgs :
       preconfig(e, d, r, u)
  \/ \E e \in EventsArgs, d \in DurationArgs, r \in RecordArgs, u \in L3tArgs,
         accept \in BOOLEAN :
       configure_as_spelt(e, d, r, u, accept)

SpecCfgAsSpelt == Init /\ [][NextCfgAsSpelt]_vars

\* configure(events=1, record=False), then blocking begins, left to run.
NextBeginWait ==
  \/ configure(1, CONFIG_VAL, "False", "CFG", TRUE)
  \/ /\ configured
     /\ \E er \in BOOLEAN :
          begin(CONFIG_VAL, CONFIG_VAL, "CFG", "CFG", TRUE, er, TRUE, TRUE)
  \/ kickoff_waited
  \/ wait_call
  \/ end_waited
  \/ \E w \in 1..NBegin : \E how \in StopOutcomes : worker_start(w, how)
  \/ \E w \in 1..NBegin : worker_poll(w)
  \/ \E w \in 1..NBegin : worker_check(w)
  \/ \E w \in 1..NBegin : worker_wake(w)
  \/ \E w \in 1..NBegin : worker_begun(w)
  \/ \E e \in 1..NEnd : ender_return(e)
  \/ \E e \in 1..NEnd : ender_post(e)
  \/ peer_finish
  \/ tick

SpecBeginWait == Init /\ [][NextBeginWait]_vars

\* stage and unstage around infinite runs.
NextStage ==
  \/ connect
  \/ begin(0, CONFIG_VAL, "CFG", "CFG", FALSE, FALSE, TRUE, TRUE)
  \/ \E how \in StopOutcomes : stop(how)
  \/ \E how \in StopOutcomes : stage(how)
  \/ \E how \in StopOutcomes, accept \in BOOLEAN : unstage(how, accept, TRUE)
  \/ kickoff_waited
  \/ kickoff_timeout
  \/ \E how \in StopOutcomes : interrupt(how)
  \/ \E w \in 1..NBegin : \E how \in StopOutcomes : worker_start(w, how)
  \/ \E w \in 1..NBegin : worker_poll(w)
  \/ \E w \in 1..NBegin : worker_check(w)
  \/ \E w \in 1..NBegin : worker_wake(w)
  \/ \E w \in 1..NBegin : worker_begun(w)
  \/ peer_settle
  \/ tick

SpecStage == Init /\ [][NextStage]_vars

\* The tokens of the asynchronous backend under the listener's deliveries.
StateSets == {{1}, {1, 2}, {NoneVal}}
TransitionSets == {{1}, {0, 2}, {NoneVal}}

NextTokens ==
  \/ \E S \in StateSets, T \in TransitionSets, cn \in BOOLEAN, timed \in BOOLEAN :
       get_status_for(S, T, cn, timed)
  \/ subscribe_transition
  \/ clean_up
  \/ token_timeout
  \/ token_dropped
  \/ \E t \in Lcls2Transitions : monitor_progress(t)
  \/ \E t \in Lcls2Transitions, st \in Lcls2States : monitor_status(t, st)
  \/ monitor_state

SpecTokens == Init /\ [][NextTokens]_vars

\* ------------------------------------------------------------------ claims
\* C1: no peer begin RPC is issued less than BEGIN_THROTTLE after the time
\* recorded by the most recent stop.
C1_BeginAfterThrottle ==
  begin_rpc.gap # NoneVal => begin_rpc.gap >= BEGIN_THROTTLE

\* the step is the configure call whose arguments call_args' holds
ConfigureStep ==
  /\ op' = "configure" /\ Len(call_args') = 5
  /\ configure(call_args'[1], call_args'[2], call_args'[3], call_args'[4],
               call_args'[5])

C3_AcceptedAsSpelt ==
  [][(/\ state \in {"Connected", "Configured"}
      /\ op' = "configure" /\ Len(call_args') = 5
      /\ configure_as_spelt(call_args'[1], call_args'[2], call_args'[3],
                            call_args'[4], call_args'[5])
      /\ ~check_duration(call_args'[2])
      /\ call_args'[5])
       => /\ result' = "ok"
          /\ retval' = <<cfg, cfg'>>
          /\ configured' /\ ~dirty']_vars

\* C3 with the put at daq.py:1068 read as a put to configured_sig: the same
\* call returns the (old, new) configuration, marked configured, nothing queued.
C3_ConfigureAccepted ==
  [][(/\ state \in {"Connected", "Configured"}
      /\ ConfigureStep
      /\ ~check_duration(call_args'[2])
      /\ call_args'[5])
       => /\ result' = "ok"
          /\ retval' = <<cfg, cfg'>>
          /\ cfg' = PreconfigCfg(cfg, call_args'[1], call_args'[2], call_args'[3],
                                 call_args'[4])
          /\ configured' /\ ~dirty'
          /\ state' = "Configured"]_vars
C3_Witness ==
  /\ op = "configure" /\ result = "ok" /\ retval # <<>>
  /\ configured /\ ~dirty /\ state = "Configured"

\* a token asked for with both a state set and a transition set
BothGiven(tk) == NoneVal \notin tk.S /\ NoneVal \notin tk.T

\* C4: a token given both S and T, with either check_now, is done whenever the
\* state observed is in S while the transition observed is in T.
C4_DoneWhenBothHold ==
  (tok.pc = "live" /\ tok.status = "pending" /\ BothGiven(tok))
    => ~(state_sig \in tok.S /\ transition_sig \in tok.T)

\* C4, what holds: the token is done whenever the last state it was handed is
\* in S while the last transition it was handed is in T; with check_now these
\* are the values of the signals from its creation on, without check_now only
\* the values put after its creation that differ from the value before.
C4_DoneWhenBothSeen ==
  (tok.pc = "live" /\ tok.status = "pending" /\ BothGiven(tok))
    => /\ ~(tok.seen_state \in tok.S /\ tok.seen_transition \in tok.T)
       /\ tok.check_now
            => tok.seen_state = state_sig /\ tok.seen_transition = transition_sig
C4_Witness ==
  /\ tok.status = "done" /\ BothGiven(tok) /\ ~tok.check_now
  /\ state_sig \in tok.S /\ transition_sig \in tok.T

\* C5: a normal status whose state is not in S never completes the token, whatever
\* its transition.
C5_TupleNeedsBoth ==
  [][(/\ mon.pc = "idle" /\ mon'.pc = "state" /\ mon'.val \notin tok.S
      /\ BothGiven(tok) /\ tok.status = "pending")
       => tok'.status = "pending"]_vars

\* C6: a token that is done, by success or by timeout, keeps its outcome, and no
\* later event raises in the listener.
C6_DoneOnce ==
  [][tok.status \in {"done", "timeout"}
       => tok'.status \in {tok.status, "none"} /\ ~tok'.raised]_vars
C6_Witness ==
  tok.late /\ tok.status = "timeout" /\ ~tok.raised

\* a begin(wait=True) returns, not by an error
BeginReturns ==
  /\ caller.pc \in {"wcall", "ewait"} /\ caller'.pc = "idle"
  /\ result' \in {"waited", "notrunning"}

C8_InterruptEndsRun ==
  [][(/\ caller.pc \in {"kwait", "wcall", "ewait"} /\ caller.req_end_run
      /\ caller'.pc = "idle" /\ result' = "interrupted")
       => "endrun" \in rpcs']_vars

C10_EventsOrDuration ==
  cfg.events = NoneVal \/ cfg.duration = NoneVal

\* C11: config reports the value most recently staged for every parameter (the
\* signals hold the class defaults until something is staged), whether or not
\* a configure has been applied.
C11_ConfigIsStaged ==
  config = cfg

\* Run control with durations below one second among the arguments.
ShortArgs == {CONFIG_VAL, 0}

NextShort ==
  \/ connect
  \/ \E e \in RunEvents, d \in ShortArgs, accept \in BOOLEAN :
       configure(e, d, "CFG", "CFG", accept)
  \/ \E how \in StopOutcomes : stop(how)
  \/ \E how \in StopOutcomes : end_run(how)
  \/ \E d \in ShortArgs, accept \in BOOLEAN :
       kickoff(CONFIG_VAL, d, "CFG", accept, TRUE)
  \/ \E d \in ShortArgs, r \in RecordArgs, wt \in BOOLEAN :
       begin(CONFIG_VAL, d, r, "CFG", wt, FALSE, TRUE, TRUE)
  \/ Blocked
  \/ Threads

SpecShort == Init /\ [][NextShort]_vars

\* the step is a configure, kickoff or begin call given a duration below 1
ShortStep ==
  /\ caller.pc = "idle"
  /\ \/ /\ op' = "configure" /\ Len(call_args') = 5
        /\ configure(call_args'[1], call_args'[2], call_args'[3], call_args'[4],
                     call_args'[5])
     \/ /\ op' = "kickoff" /\ Len(call_args') = 5
        /\ kickoff(call_args'[1], call_args'[2], call_args'[3], call_args'[4],
                   call_args'[5])
     \/ /\ op' = "begin" /\ Len(call_args') = 8
        /\ begin(call_args'[1], call_args'[2], call_args'[3], call_args'[4],
                 call_args'[5], call_args'[6], call_args'[7], call_args'[8])
  /\ check_duration(call_args'[2])

WaitEvents == {CONFIG_VAL, 0, 1}

NextWait ==
  \/ connect
  \/ \E e \in {NoneVal, 1} : preconfig(e, CONFIG_VAL, "CFG", "CFG")
  \/ \E how \in StopOutcomes : stop(how)
  \/ \E e \in WaitEvents : kickoff(e, CONFIG_VAL, "CFG", TRUE, TRUE)
  \/ \E timed \in BOOLEAN, er \in BOOLEAN : wait(timed, er)
  \/ wait_timeout
  \/ end_waited
  \/ Threads

SpecWait == Init /\ [][NextWait]_vars

\* the step is a call of wait by the user
WaitStep ==
  /\ caller.pc = "idle" /\ op' = "wait" /\ Len(call_args') = 2
  /\ wait(call_args'[1], call_args'[2])

\* C13: wait() called while the peer is Running an infinite run raises at once:
\* it does not block, starts no end-status worker and issues no end_run.
C13_InfiniteWaitFails ==
  [][(WaitStep /\ Acquiring(peer, lag) /\ ~finite)
       => /\ result' = "CannotWait"
          /\ caller' = caller /\ ew' = ew /\ rpcs' = {}]_vars

\* The asynchronous backend: its calls, its tokens and the listener.
InitLcls2 ==
  /\ control = NoControl /\ cfg = default_config /\ dirty = TRUE
  /\ configured = FALSE /\ snap = reset_begin /\ last_stop = 0
  /\ re_cbid = FALSE /\ pre_run_state = "None" /\ run_number_failed = FALSE
  /\ caller = Idle
  /\ bw = [w \in 1..NBegin |-> NoWorker]
  /\ ew = [e \in 1..NEnd |-> NoEnder]
  /\ slots = AcceptFirst
  /\ peer = Disconnected /\ lag = 0 /\ finite = FALSE
  /\ now = BEGIN_THROTTLE
  /\ op = "init" /\ result = "ok" /\ rpcs = {} /\ retval = <<>> /\ call_args = <<>>
  /\ stop_stamp = NoneVal
  /\ begin_rpc = [gap |-> NoneVal, kind |-> "none", val |-> 0]
  /\ state_sig = state_from_any("reset")
  /\ transition_sig = transition_from_any("reset")
  /\ mon = [pc |-> "idle", val |-> 0]
  /\ tok = NoToken
  /\ signals = NoSignals /\ destroyed = FALSE

\* the statuses the listener is sent
ListenerStates == state_include({"allocated", "connected", "starting", "paused", "running"})
ListenerTransitions ==
  {transition_from_any(n) : n \in {"configure", "beginrun", "endstep", "endrun"}}

NextLcls2 ==
  \/ lcls2_stop
  \/ lcls2_end_run
  \/ lcls2_kickoff
  \/ lcls2_kickoff_set
  \/ \E timed \in BOOLEAN, er \in BOOLEAN : lcls2_wait(timed, er)
  \/ lcls2_wait_sub
  \/ lcls2_wait_ends
  \/ clean_up
  \/ token_timeout
  \/ token_dropped
  \/ \E t \in ListenerTransitions, st \in ListenerStates : monitor_status(t, st)
  \/ monitor_state

SpecLcls2 == InitLcls2 /\ [][NextLcls2]_vars

\* C14: a wait whose timeout runs out raises DaqTimeoutError, in both backends,
\* and the expiry sends the peer nothing.
C14_TimeoutIsDaqTimeout ==
  [][(wait_timeout \/ (lcls2_wait_ends /\ tok.status = "timeout"))
       => result' = "DaqTimeoutError" /\ rpcs' = {}]_vars

\* the step is a call of stop or of end_run by the user, on a connected backend
StopStep ==
  /\ caller.pc = "idle" /\ control # NoControl
  /\ \/ op' = "stop" /\ \E how \in StopOutcomes : stop(how)
     \/ op' = "end_run" /\ \E how \in StopOutcomes : end_run(how)

SlotAnswers == {"accept", "refuse", "query"}
SlotProfiles == [Platforms -> SlotAnswers]

NextConnect ==
  \/ connect
  \/ \E how \in StopOutcomes : disconnect(how)
  \/ \E how \in StopOutcomes : stop(how)
  \/ \E how \in StopOutcomes : end_run(how)
  \/ \E accept \in BOOLEAN : configure(1, CONFIG_VAL, "CFG", "CFG", accept)
  \/ kickoff(CONFIG_VAL, CONFIG_VAL, "CFG", TRUE, TRUE)
  \/ \E er \in BOOLEAN : wait(FALSE, er)

SpecConnect == InitWith(SlotProfiles) /\ [][NextConnect]_vars

\* C16: after connect() from the disconnected state the backend holds a
\* session exactly when one of the slots accepted, the first that did; when
\* none accepts the handle is null and the state stays Disconnected.
C16_ConnectedIffAccepted ==
  [][(caller.pc = "idle" /\ control = NoControl /\ op' = "connect" /\ connect)
       => \E acc \in {{p \in Platforms : slots[p] = "accept"}} :
            /\ control' # NoControl <=> acc # {}
            /\ acc # {} => control' = Min(acc)
            /\ acc = {} => state' = "Disconnected"]_vars

\* the step is a guarded call made while the backend is disconnected
GuardedStep ==
  /\ caller.pc = "idle" /\ control = NoControl
  /\ \/ op' = "stop" /\ \E how \in StopOutcomes : stop(how)
     \/ op' = "end_run" /\ \E how \in StopOutcomes : end_run(how)
     \/ /\ op' = "configure" /\ Len(call_args') = 5
        /\ configure(call_args'[1], call_args'[2], call_args'[3], call_args'[4],
                     call_args'[5])
     \/ /\ op' = "kickoff" /\ Len(call_args') = 5
        /\ kickoff(call_args'[1], call_args'[2], call_args'[3], call_args'[4],
                   call_args'[5])
     \/ /\ op' = "wait" /\ Len(call_args') = 2
        /\ wait(call_args'[1], call_args'[2])

\* the body of the call of this step ran
BodyRan ==
  \/ op' \in {"stop", "end_run"} /\ "stop" \in rpcs' /\ last_stop' = now
  \/ op' = "configure" /\ "configure" \in rpcs'
  \/ op' = "kickoff" /\ bw' # bw
  \/ op' = "wait" /\ result' = "ok" /\ (call_args'[2] <=> "endrun" \in rpcs')

\* C17: a guarded call made while disconnected makes one connect attempt; if
\* that leaves the backend connected the body runs, otherwise the call raises
\* the connection error with no part of its body run and no second attempt.
C17_GuardConnectsOnce ==
  [][GuardedStep
       => /\ "connect" \in rpcs' /\ "reconnect" \notin rpcs'
          /\ control' = ConnectSlot(slots)
          /\ IF control' # NoControl THEN BodyRan
             ELSE /\ result' = "ConnectError" /\ rpcs' = {"connect"}
                  /\ UNCHANGED <<cfg, dirty, configured, snap, last_stop, stop_stamp,
                                 bw, ew, caller>>]_vars
C17_Witness ==
  /\ op = "kickoff" /\ result = "ConnectError" /\ rpcs = {"connect"}
  /\ \E p \in Platforms : slots[p] = "accept"

\* C18: the dirty flag is true at construction and after every preconfig or
\* configure write to record or use_l3t; it goes false only in a call whose
\* peer configure RPC succeeded.
C18_DirtyDiscipline ==
  [][/\ op = "init" => dirty
     /\ (dirty /\ ~dirty')
          => ("configure" \in rpcs' /\ result' # "ConfigureError")
     /\ (/\ caller.pc = "idle"
         /\ op' \in {"preconfig", "configure"}
         /\ (call_args'[3] # "CFG" \/ call_args'[4] # "CFG")
         /\ \/ /\ op' = "preconfig"
               /\ preconfig(call_args'[1], call_args'[2], call_args'[3],
                            call_args'[4])
            \/ /\ op' = "configure"
               /\ configure(call_args'[1], call_args'[2], call_args'[3],
                            call_args'[4], call_args'[5])
               /\ result' \notin {"ok", "StateTransitionError",
                                  "DurationError", "ConnectError"})
          => dirty']_vars
C18_Witness ==
  /\ op = "configure" /\ result = "ok" /\ ~dirty /\ cfg.use_l3t = "True"

StateNamed(n) == CHOOSE i \in 1..Len(PsdaqStates) : PsdaqStates[i] = n
KickoffRefused == state_sig < StateNamed("connected") \/ state_sig = StateNamed("running")
Identifiers(vocab) ==
  {Name(vocab[i]) : i \in DOMAIN vocab} \cup {Ordinal(i) : i \in DOMAIN vocab}
RECURSIVE IdSets(_, _)
IdSets(vocab, k) ==
  IF k = 0 THEN {{}}
  ELSE {S \cup {x} : S \in IdSets(vocab, k - 1), x \in Identifiers(vocab)}
         \cup IdSets(vocab, k - 1)
NotCalled == [err |-> "unset", val |-> {}]

InitEnum ==
  /\ control = NoControl /\ cfg = default_config /\ dirty = TRUE
  /\ configured = FALSE /\ snap = reset_begin /\ last_stop = 0
  /\ re_cbid = FALSE /\ pre_run_state = "None" /\ run_number_failed = FALSE
  /\ caller = Idle
  /\ bw = [w \in 1..NBegin |-> NoWorker]
  /\ ew = [e \in 1..NEnd |-> NoEnder]
  /\ slots = AcceptFirst
  /\ peer = Disconnected /\ lag = 0 /\ finite = FALSE
  /\ now = BEGIN_THROTTLE
  /\ op = "init" /\ result = "ok" /\ rpcs = {}
  /\ retval = <<NotCalled, NotCalled>>
  /\ \E vocab \in {PsdaqStates, PsdaqTransitions} :
       \E ids \in IdSets(vocab, MaxIds) : call_args = <<vocab, ids>>
  /\ stop_stamp = NoneVal
  /\ begin_rpc = [gap |-> NoneVal, kind |-> "none", val |-> 0]
  /\ state_sig = state_from_any("reset")
  /\ transition_sig = transition_from_any("reset")
  /\ mon = [pc |-> "idle", val |-> 0]
  /\ tok = NoToken
  /\ signals = NoSignals /\ destroyed = FALSE

EnumRest == <<control, cfg, dirty, configured, snap, last_stop, re_cbid,
              pre_run_state, run_number_failed, caller, bw, ew, slots, peer, lag,
              finite, now, rpcs, call_args, stop_stamp, begin_rpc, state_sig,
              transition_sig, mon, tok, signals, destroyed>>

\* cls.include(ids) and cls.exclude(ids), the helpers read as taking the class
enum_include ==
  /\ retval[1] = NotCalled
  /\ \E r \in {include(call_args[1], call_args[2])} :
       /\ retval' = [retval EXCEPT ![1] = r]
       /\ op' = "include" /\ result' = r.err
  /\ UNCHANGED EnumRest
enum_exclude ==
  /\ retval[2] = NotCalled
  /\ \E r \in {exclude(call_args[1], call_args[2])} :
       /\ retval' = [retval EXCEPT ![2] = r]
       /\ op' = "exclude" /\ result' = r.err
  /\ UNCHANGED EnumRest
NextEnum == enum_include \/ enum_exclude
SpecEnum == InitEnum /\ [][NextEnum]_vars

\* the same calls with the helpers as they are declared
enum_include_as_spelt ==
  /\ retval[1] = NotCalled
  /\ \E r \in {include_as_spelt(call_args[1], call_args[2])} :
       /\ retval' = [retval EXCEPT ![1] = r]
       /\ op' = "include" /\ result' = r.err
  /\ UNCHANGED EnumRest
enum_exclude_as_spelt ==
  /\ retval[2] = NotCalled
  /\ \E r \in {exclude_as_spelt(call_args[1], call_args[2])} :
       /\ retval' = [retval EXCEPT ![2] = r]
       /\ op' = "exclude" /\ result' = r.err
  /\ UNCHANGED EnumRest
NextEnumAsSpelt == enum_include_as_spelt \/ enum_exclude_as_spelt
SpecEnumAsSpelt == InitEnum /\ [][NextEnumAsSpelt]_vars

\* C21: for every set X of identifiers of a vocabulary, include(X) and
\* exclude(X) are disjoint, their union is the whole vocabulary, and include(X)
\* holds exactly the members X names.
C21_IncludeExcludePartition ==
  (retval[1] # NotCalled /\ retval[2] # NotCalled)
    => /\ retval[1].err = "ok" /\ retval[2].err = "ok"
       /\ retval[1].val \cap retval[2].val = {}
       /\ retval[1].val \cup retval[2].val = 1..Len(call_args[1])
       /\ retval[1].val = {i \in 1..Len(call_args[1]) :
                             \/ Name(call_args[1][i]) \in call_args[2]
                             \/ Ordinal(i) \in call_args[2]}

\* --------------------------------- two events delivered on two threads
Callbacks == {"state", "transition"}
NextLock ==
  \/ \E S \in StateSets, T \in TransitionSets, cn \in BOOLEAN :
       get_status_for(S, T, cn, FALSE)
  \/ subscribe_transition
  \/ \E which \in Callbacks, value \in Lcls2States : cb_call(which, value)
  \/ \E which \in Callbacks : cb_acquire(which)
  \/ \E which \in Callbacks : cb_read(which)
  \/ \E which \in Callbacks : cb_decide(which)
  \/ \E which \in Callbacks : cb_release(which)
  \/ clean_up
SpecLock == Init /\ [][NextLock]_vars

\* C22: when a state event and a transition event of one token are delivered
\* on two threads and the pair satisfies both target sets, the token is done
\* once both callbacks have returned, in every interleaving.
C22_LockSerializes ==
  (/\ tok.cs.pc = "returned" /\ tok.ct.pc = "returned"
   /\ tok.cs.value \in tok.S /\ tok.ct.value \in tok.T)
    => tok.status = "done"
C22_Witness ==
  /\ tok.cs.pc = "returned" /\ tok.ct.pc = "returned"
  /\ tok.cs.value \in tok.S /\ tok.ct.value \in tok.T
  /\ tok.cs.partner \notin tok.T /\ tok.ct.partner \in tok.S
  /\ tok.status = "done"

\* C23: a token given only a state set, or only a transition set, is done as
\* soon as the value of the given field it is handed is in the set, whatever
\* the other field is.
C23_OmittedFieldFree ==
  (tok.pc = "live" /\ tok.status = "pending")
    => /\ (NoneVal \in tok.T /\ NoneVal \notin tok.S) => tok.seen_state \notin tok.S
       /\ (NoneVal \in tok.S /\ NoneVal \notin tok.T)
            => tok.seen_transition \notin tok.T

\* ------------------------------ run control with the session closed under
\* a worker
NextDisconnect ==
  \/ connect
  \/ \E how \in StopOutcomes : disconnect(how)
  \/ \E accept \in BOOLEAN : configure(1, CONFIG_VAL, "CFG", "CFG", accept)
  \/ \E how \in StopOutcomes : stop(how)
  \/ kickoff(CONFIG_VAL, CONFIG_VAL, "CFG", TRUE, TRUE)
  \/ \E wt \in BOOLEAN :
       begin(CONFIG_VAL, CONFIG_VAL, "CFG", "CFG", wt, FALSE, TRUE, TRUE)
  \/ Blocked
  \/ Threads
SpecDisconnect == Init /\ [][NextDisconnect]_vars

\* C24: an error raised inside a begin worker resolves the worker's token as
\* failed: the worker never exits except through set_finished (after the
\* peer begin returned) or set_exception (after the readiness poll), so no
\* token is left pending by a worker that has exited.
C24_WorkerErrorsCaptured ==
  [][\A w \in 1..NBegin :
       (bw[w].pc # "none" /\ bw'[w].pc = "none")
         => /\ bw[w].pc \in {"rpc", "check"}
            /\ bw'[w].status # "pending"]_vars

\* C25: the begin worker begins the peer whenever the peer reports Configured
\* or Open at some point within the begin-readiness timeout after the worker
\* started; in particular it does not give up on a peer that is still settling
\* after a stop before that time has passed.
C25_LaggingPeerBegun ==
  \A w \in 1..NBegin :
    ~(/\ bw[w].pc = "none" /\ bw[w].status = "failed"
      /\ lag # 0 /\ now < BEGIN_TIMEOUT + BEGIN_THROTTLE)

\* the step is a kickoff() call of its own
KickoffStep ==
  /\ caller.pc = "idle" /\ op' = "kickoff"
  /\ kickoff(call_args'[1], call_args'[2], call_args'[3], call_args'[4],
             call_args'[5])
OpenRunKickoff ==
  /\ KickoffStep /\ state \in {"Open", "Running"} /\ (dirty \/ ~configured)
OpenRunUntouched ==
  /\ bw' = bw /\ rpcs' = {} /\ begin_rpc' = begin_rpc
  /\ peer' = peer /\ lag' = lag /\ finite' = finite /\ snap' = snap
  /\ cfg' = cfg /\ dirty' = dirty /\ configured' = configured
C28_StopBeforeBegin ==
  [][\A w \in 1..NBegin :
       /\ (bw[w].pc = "start" /\ bw'[w].pc = "poll" /\ state \in {"Open", "Running"})
            => /\ stop_stamp' = now /\ last_stop' = now
               /\ ~Acquiring(peer', lag') /\ begin_rpc' = begin_rpc
       /\ (bw[w].pc = "check" /\ bw'[w].pc \in {"sleep", "rpc"})
            => state \in {"Configured", "Open"}
       /\ (bw[w].pc # "rpc" /\ bw'[w].pc = "rpc")
            => (peer \in {Configured, Open} /\ lag = 0)]_vars
C28_Witness ==
  /\ \E w \in 1..NBegin : bw[w].pc = "poll"
  /\ peer = Running /\ lag # 0 /\ stop_stamp = now /\ op = "kickoff"

\* C29: while a run started by a completed kickoff is in progress, the
\* infinite-run answer is true exactly when the peer begin RPC of that kickoff
\* was unbounded, whatever was done to the configuration cache since.
C29_InfiniteAnswerIsBegin ==
  (Acquiring(peer, lag) /\ snap # reset_begin) => (infinite_run <=> ~finite)

\* C30: an end-status worker of an earlier run never clears the begin snapshot
\* of a later run: while a finite run begun by a completed kickoff is being
\* taken, the snapshot holds that kickoff's arguments.
C30_SnapshotOfThisRun ==
  (Acquiring(peer, lag) /\ finite) => snap # reset_begin

\* C31: a begin(end_run=True) of a finite run that waited for the acquisition
\* returns only after the peer endrun RPC was issued within the call.
C31_BeginEndsRun ==
  [][(BeginReturns /\ op = "begin" /\ caller.req_end_run)
       => "endrun" \in rpcs']_vars

\* Kickoffs given events, duration and use_l3t arguments of every kind, on
\* configurations of every kind: <<events, duration, use_l3t>>.
BeginArgs ==
  {<<CONFIG_VAL, CONFIG_VAL, "CFG">>, <<2, 3, "True">>, <<2, CONFIG_VAL, "False">>,
   <<NoneVal, 3, "CFG">>, <<NoneVal, CONFIG_VAL, "None">>, <<CONFIG_VAL, 3, "CFG">>}
ConfigArgs ==
  {<<CONFIG_VAL, 2, "CFG">>, <<1, CONFIG_VAL, "True">>, <<NoneVal, CONFIG_VAL, "False">>}

NextArgs ==
  \/ connect
  \/ \E a \in ConfigArgs : configure(a[1], a[2], "CFG", a[3], TRUE)
  \/ \E a \in BeginArgs : kickoff(a[1], a[2], a[3], TRUE, TRUE)
  \/ \E w \in 1..NBegin : \E how \in StopOutcomes : worker_start(w, how)
  \/ \E w \in 1..NBegin : worker_poll(w)
  \/ \E w \in 1..NBegin : worker_check(w)
  \/ \E w \in 1..NBegin : worker_wake(w)
  \/ \E w \in 1..NBegin : worker_begun(w)
  \/ peer_settle
  \/ peer_finish
  \/ tick

SpecArgs == Init /\ [][NextArgs]_vars

\* the events value that applies to a kickoff with these arguments, if any
AppliedEvents(events, duration) ==
  IF events = CONFIG_VAL /\ duration = CONFIG_VAL THEN config.events ELSE events
AppliedDuration(events, duration) ==
  IF events = CONFIG_VAL /\ duration = CONFIG_VAL THEN config.duration ELSE duration
Given(v) == v \notin {NoneVal, CONFIG_VAL}
L3tInEffect(use_l3t) ==
  IF use_l3t \in {"None", "CFG"} THEN config.use_l3t = "True" ELSE use_l3t = "True"

\* C32: the begin worker derives exactly one of events, l3t_events or duration
\* from its arguments and the configuration: an events value, given or inherited
\* when both are omitted, goes first, as l3t_events when use_l3t is in effect;
\* a duration goes only when no events value applies; events=0 when neither
\* does; and the peer begin RPC is sent what was derived.
C32_BeginArgs ==
  [][\A w \in 1..NBegin :
       /\ (bw[w].pc = "check" /\ bw'[w].pc \in {"sleep", "rpc"})
            => \E ev \in {AppliedEvents(bw[w].events, bw[w].duration)},
                  du \in {AppliedDuration(bw[w].events, bw[w].duration)} :
                 /\ Given(ev)
                      => /\ bw'[w].args.val = ev
                         /\ bw'[w].args.kind = IF L3tInEffect(bw[w].use_l3t)
                                                 THEN "l3t_events" ELSE "events"
                 /\ (~Given(ev) /\ Given(du))
                      => bw'[w].args = [kind |-> "duration", val |-> du]
                 /\ (~Given(ev) /\ ~Given(du))
                      => bw'[w].args = [kind |-> "events", val |-> 0]
       /\ (bw[w].pc = "sleep" /\ bw'[w].pc = "rpc") => bw'[w].args = bw[w].args
       /\ (bw[w].pc # "rpc" /\ bw'[w].pc = "rpc")
            => /\ begin_rpc'.kind = bw'[w].args.kind
               /\ begin_rpc'.val = bw'[w].args.val]_vars
\* an inherited events value went out as l3t_events although the configuration
\* also holds a duration
C32_Witness ==
  /\ begin_rpc.kind = "l3t_events" /\ begin_rpc.val = 1
  /\ op = "kickoff" /\ call_args[1] = CONFIG_VAL /\ call_args[2] = CONFIG_VAL
  /\ call_args[3] = "CFG"
  /\ cfg.duration = 2 /\ Acquiring(peer, lag)

\* C33: a configure whose peer configure RPC raises ends in the configure
\* failure with the cached parameters as they were before the call, the
\* transition still queued and the backend not newly marked configured.
C33_ConfigureAtomic ==
  [][(ConfigureStep /\ result' = "ConfigureError")
       => /\ "configure" \in rpcs'
          /\ cfg' = cfg /\ config' = config
          /\ dirty'
          /\ configured' => configured]_vars

\* Recorded and unrecorded runs kicked off while the run-number helper works
\* or fails.
NextRunNumber ==
  \/ connect
  \/ \E r \in {"True", "False"} : configure(CONFIG_VAL, CONFIG_VAL, r, "CFG", TRUE)
  \/ \E helper \in BOOLEAN : kickoff(1, CONFIG_VAL, "CFG", TRUE, helper)
  \/ \E how \in StopOutcomes : end_run(how)
  \/ \E how \in StopOutcomes : disconnect(how)
  \/ \E w \in 1..NBegin : \E how \in StopOutcomes : worker_start(w, how)
  \/ \E w \in 1..NBegin : worker_poll(w)
  \/ \E w \in 1..NBegin : worker_check(w)
  \/ \E w \in 1..NBegin : worker_wake(w)
  \/ \E w \in 1..NBegin : worker_begun(w)
  \/ peer_settle
  \/ peer_finish
  \/ tick

SpecRunNumber == Init /\ [][NextRunNumber]_vars

\* C34: a kickoff in which the run-number helper fails still returns its token
\* with its begin worker launched, and remembers the failure; no kickoff made
\* after a failure calls the helper, and the failure is never forgotten.
C34_HelperFailureCached ==
  [][/\ (KickoffStep /\ "run_number" \in rpcs' /\ ~call_args'[5])
          => /\ result' = "ok" /\ run_number_failed'
             /\ \E w \in 1..NBegin :
                  /\ bw[w].pc = "none" /\ bw'[w].pc = "start"
                  /\ bw'[w].status = "pending"
     /\ (KickoffStep /\ run_number_failed) => "run_number" \notin rpcs'
     /\ (KickoffStep /\ "run_number" \in rpcs' /\ call_args'[5])
          => ~run_number_failed'
     /\ run_number_failed => run_number_failed']_vars
\* a kickoff of a recorded run from Configured, made after a failure, with the
\* helper still failing: it did not call the helper and launched its worker
C34_Witness ==
  /\ op = "kickoff" /\ result = "ok" /\ call_args[5] = FALSE
  /\ run_number_failed /\ "run_number" \notin rpcs
  /\ config.record = "True" /\ rpcs = {} /\ state = "Configured"
  /\ \E w \in 1..NBegin : bw[w].pc = "start"

\* ------------------------------------------- DaqLCLS2: the listener's loop
\* What _monitor_thread works on: the two enumerated signals, the other
\* signals, the token subscribed to them, and the exception that ended the try.
Listener ==
  [transition |-> transition_sig, state |-> state_sig, sig |-> signals,
   tok |-> tok, err |-> "ok"]

\* info[i] for a Python index i: IndexError past the end of the tuple
Has(info, i) == i + 1 <= Len(info)
IsLabel(info, l) == info[1].k = "name" /\ info[1].n = l

\* self.<f>_sig.put(info[i])
PutField(ls, f, info, i) ==
  IF ls.err # "ok" THEN ls
  ELSE IF ~Has(info, i) THEN [ls EXCEPT !.err = "IndexError"]
  ELSE [ls EXCEPT !.sig[f] = info[i + 1]]

\* self.transition_sig.put(self.transition_enum.from_any(info[i])), with the
\* callback of a subscribed token
PutTransition(ls, info, i) ==
  IF ls.err # "ok" THEN ls
  ELSE IF ~Has(info, i) THEN [ls EXCEPT !.err = "IndexError"]
  ELSE The({IF r.err # "ok" THEN [ls EXCEPT !.err = r.err]
            ELSE [ls EXCEPT !.transition = r.val,
                            !.tok = DeliverTransition(@, r.val, ls.transition)] :
            r \in {from_any(PsdaqTransitions, info[i + 1])}})

\* self.state_sig.put(self.state_enum.from_any(info[i])), with _configured_cb
\* and the callback of a subscribed token
PutState(ls, info, i) ==
  IF ls.err # "ok" THEN ls
  ELSE IF ~Has(info, i) THEN [ls EXCEPT !.err = "IndexError"]
  ELSE The({IF r.err # "ok" THEN [ls EXCEPT !.err = r.err]
            ELSE [ls EXCEPT !.state = r.val,
                            !.sig.configured = r.val >= state_from_any("configured"),
                            !.tok = DeliverState(@, r.val, ls.state)] :
            r \in {from_any(PsdaqStates, info[i + 1])}})

\* the six signals a normal status puts after the transition and the state,
\* in the order of their puts: info[2] .. info[7]
StatusFields ==
  <<"config_alias", "recording", "bypass_activedet", "experiment_name",
    "run_number", "last_run_number">>
PutStatusFields(ls, info) ==
  IF ls.err # "ok" THEN ls
  ELSE [ls EXCEPT
          !.sig = [f \in DOMAIN @ |->
                     IF \E j \in DOMAIN StatusFields :
                          StatusFields[j] = f /\ Has(info, j + 1)
                       THEN info[(CHOOSE j \in DOMAIN StatusFields :
                                    StatusFields[j] = f) + 2]
                     ELSE @[f]],
          !.err = IF Has(info, 7) THEN "ok" ELSE "IndexError"]

\* A message of monitorStatus: a tuple, None, or an exception it raises.
Tuple(info) == [kind |-> "tuple", info |-> info]
Raises == [kind |-> "raise", info |-> <<>>]
NoneMessage == [kind |-> "none", info |-> <<>>]

\* the body of the try in _monitor_thread, for one message
monitor_info(ls, msg) ==
  IF msg.kind = "raise" THEN [ls EXCEPT !.err = "Exception"]
  ELSE IF msg.kind = "none" THEN [ls EXCEPT !.err = "TypeError"]
  ELSE IF ~Has(msg.info, 0) THEN [ls EXCEPT !.err = "IndexError"]
  ELSE IF IsLabel(msg.info, "error") THEN PutField(ls, "last_err", msg.info, 1)
  ELSE IF IsLabel(msg.info, "warning")
    THEN PutField(ls, "last_warning", msg.info, 1)
  ELSE IF IsLabel(msg.info, "fileReport")
    THEN PutField(ls, "last_file_report", msg.info, 1)
  ELSE IF IsLabel(msg.info, "progress")
    THEN The({PutField(e, "transition_total", msg.info, 3) :
              e \in {The({PutField(t, "transition_elapsed", msg.info, 2) :
                          t \in {PutTransition(ls, msg.info, 1)}})}})
  ELSE IF IsLabel(msg.info, "step") THEN PutField(ls, "step_done", msg.info, 1)
  ELSE The({PutStatusFields(s, msg.info) :
            s \in {The({PutState(t, msg.info, 1) :
                        t \in {PutTransition(ls, msg.info, 0)}})}})

\* the body as it is spelt: self.info (daq.py:1444) is no attribute of the
\* device, and from_any looked up on the enumeration class is unbound, so the
\* progress branch and the normal-status branch raise before their first put
monitor_info_as_spelt(ls, msg) ==
  IF msg.kind = "raise" THEN [ls EXCEPT !.err = "Exception"]
  ELSE IF msg.kind = "none" THEN [ls EXCEPT !.err = "TypeError"]
  ELSE IF ~Has(msg.info, 0) THEN [ls EXCEPT !.err = "IndexError"]
  ELSE IF IsLabel(msg.info, "error") THEN PutField(ls, "last_err", msg.info, 1)
  ELSE IF IsLabel(msg.info, "warning")
    THEN PutField(ls, "last_warning", msg.info, 1)
  ELSE IF IsLabel(msg.info, "fileReport")
    THEN PutField(ls, "last_file_report", msg.info, 1)
  ELSE IF IsLabel(msg.info, "progress") THEN [ls EXCEPT !.err = "AttributeError"]
  ELSE IF IsLabel(msg.info, "step") THEN PutField(ls, "step_done", msg.info, 1)
  ELSE [ls EXCEPT !.err = Unbound(2, 1)]

ListenerRest == <<control, cfg, dirty, configured, snap, last_stop, re_cbid,
                  pre_run_state, run_number_failed, caller, bw, ew, slots, peer,
                  lag, finite, now, rpcs, retval, stop_stamp, begin_rpc>>

\* while not self._destroyed: the test, then the call of monitorStatus
listener_test ==
  /\ mon.pc = "idle"
  /\ mon' = [mon EXCEPT !.pc = IF destroyed THEN "ended" ELSE "recv"]
  /\ UNCHANGED <<ListenerRest, op, result, call_args, state_sig, transition_sig,
                 tok, signals, destroyed>>

Handled(ls, msg) ==
  /\ transition_sig' = ls.transition /\ state_sig' = ls.state
  /\ signals' = ls.sig /\ tok' = ls.tok
  /\ op' = "monitorStatus" /\ result' = ls.err /\ call_args' = <<msg>>

\* listener_handle with the try around the loop: an exception ends the thread
listener_handle_unguarded(msg) ==
  /\ mon.pc = "recv"
  /\ \E ls \in {monitor_info(Listener, msg)} :
       /\ Handled(ls, msg)
       /\ mon' = [mon EXCEPT !.pc = IF ls.err = "ok" THEN "idle" ELSE "ended"]
  /\ UNCHANGED <<ListenerRest, destroyed>>

\* monitorStatus returns or raises, the body runs, "except Exception: ..."
\* passes over whatever was raised, and the loop goes back to its test
listener_handle(msg) ==
  /\ mon.pc = "recv"
  /\ \E ls \in {monitor_info(Listener, msg)} :
       /\ Handled(ls, msg)
       /\ mon' = [mon EXCEPT !.pc = "idle"]
  /\ UNCHANGED <<ListenerRest, destroyed>>

listener_handle_as_spelt(msg) ==
  /\ mon.pc = "recv"
  /\ \E ls \in {monitor_info_as_spelt(Listener, msg)} :
       /\ Handled(ls, msg)
       /\ mon' = [mon EXCEPT !.pc = "idle"]
  /\ UNCHANGED <<ListenerRest, destroyed>>

\* the device is destroyed
destroy ==
  /\ ~destroyed
  /\ destroyed' = TRUE
  /\ UNCHANGED <<ListenerRest, op, result, call_args, state_sig, transition_sig,
                 mon, tok, signals>>

\* The messages the listener is sent: tuples of every label as the peer
\* documents them, and tuples that are empty, too short, or name no member.
GoodTuples ==
  {<<Name(l), Ordinal(1)>> : l \in {"error", "warning", "fileReport", "step"}}
    \cup {<<Name("progress"), t, Ordinal(1), Ordinal(2)>> :
            t \in {Name("beginrun"), Ordinal(9)}}
    \cup {<<Name("enable"), Name("running"), Name("BEAM"), Ordinal(1), Ordinal(0),
            Name("tstx00117"), Ordinal(7), Ordinal(6)>>,
          <<Name("configure"), Name("configured"), Name("BEAM"), Ordinal(0),
            Ordinal(0), Name("tstx00117"), Ordinal(7), Ordinal(7)>>}
BadTuples ==
  {<<>>, <<Name("error")>>, <<Ordinal(1)>>,
   <<Name("progress"), Name("bogus"), Ordinal(1), Ordinal(2)>>,
   <<Name("progress"), Name("disable")>>,
   <<Name("bogus"), Name("running"), Name("BEAM"), Ordinal(1), Ordinal(0),
     Name("tstx00117"), Ordinal(7), Ordinal(6)>>,
   <<Name("disable"), Name("bogus"), Name("BEAM"), Ordinal(1), Ordinal(0),
     Name("tstx00117"), Ordinal(7), Ordinal(6)>>,
   <<Name("disable"), Name("paused"), Name("NOBEAM")>>}
Messages ==
  {Tuple(t) : t \in GoodTuples \cup BadTuples} \cup {Raises, NoneMessage}

NextListener ==
  \/ listener_test
  \/ \E msg \in Messages : listener_handle(msg)
  \/ destroy

SpecListener == InitLcls2 /\ [][NextListener]_vars

NextListenerAsSpelt ==
  \/ listener_test
  \/ \E msg \in Messages : listener_handle_as_spelt(msg)
  \/ destroy

SpecListenerAsSpelt == InitLcls2 /\ [][NextListenerAsSpelt]_vars

\* C35: whatever the listener receives, a malformed or unexpected tuple or an
\* exception of the subscription call, it goes back to the test of its loop;
\* the loop ends only on a device that is destroyed.
C35_ListenerSurvives ==
  [][/\ (mon.pc = "recv" /\ mon' # mon) => mon'.pc = "idle"
     /\ (mon.pc # "ended" /\ mon'.pc = "ended") => destroyed
     /\ (mon.pc = "idle" /\ ~destroyed /\ mon' # mon) => mon'.pc = "recv"]_vars
\* after a tuple too short for its label the listener is receiving again
C35_Witness ==
  /\ op = "monitorStatus" /\ result = "IndexError" /\ call_args[1].kind = "tuple"
  /\ Len(call_args[1].info) = 3 /\ state_sig = state_from_any("paused")
  /\ mon.pc = "recv" /\ ~destroyed

\* a tuple as the peer documents it for its label
WellFormed(info) ==
  /\ Len(info) >= 1 /\ info[1].k = "name"
  /\ IF info[1].n \in {"error", "warning", "fileReport", "step"} THEN Len(info) = 2
     ELSE IF info[1].n = "progress"
       THEN Len(info) = 4 /\ from_any(PsdaqTransitions, info[2]).err = "ok"
     ELSE /\ Len(info) = 8
          /\ from_any(PsdaqTransitions, info[1]).err = "ok"
          /\ from_any(PsdaqStates, info[2]).err = "ok"
\* the step handles a well-formed tuple
TupleStep ==
  /\ mon.pc = "recv" /\ mon'.pc = "idle" /\ op' = "monitorStatus"
  /\ call_args'[1].kind = "tuple" /\ WellFormed(call_args'[1].info)
\* the one signal of a single-field label
FieldOf(label) ==
  CASE label = "error" -> "last_err"
    [] label = "warning" -> "last_warning"
    [] label = "fileReport" -> "last_file_report"
    [] OTHER -> "step_done"

\* C36: a well-formed tuple sets the signals of its label and no other: error,
\* warning, fileReport and step their one signal; progress the transition and
\* the elapsed and total progress; a normal status the transition, the state
\* (with the configured flag the state implies) and the six signals of its
\* payload.
C36_TupleFrame ==
  [][TupleStep =>
       \E info \in {call_args'[1].info} :
         IF info[1].n \in {"error", "warning", "fileReport", "step"}
           THEN /\ signals' = [signals EXCEPT ![FieldOf(info[1].n)] = info[2]]
                /\ UNCHANGED <<state_sig, transition_sig>>
         ELSE IF info[1].n = "progress"
           THEN /\ transition_sig' = from_any(PsdaqTransitions, info[2]).val
                /\ signals' = [signals EXCEPT !.transition_elapsed = info[3],
                                              !.transition_total = info[4]]
                /\ UNCHANGED state_sig
         ELSE /\ transition_sig' = from_any(PsdaqTransitions, info[1]).val
              /\ state_sig' = from_any(PsdaqStates, info[2]).val
              /\ signals' = [signals EXCEPT
                               !.config_alias = info[3], !.recording = info[4],
                               !.bypass_activedet = info[5],
                               !.experiment_name = info[6],
                               !.run_number = info[7], !.last_run_number = info[8],
                               !.configured =
                                 state_sig' >= state_from_any("configured")]]_vars

\* the step is a call of disconnect
DisconnectStep ==
  /\ caller.pc = "idle" /\ op' = "disconnect"
  /\ \E how \in StopOutcomes : disconnect(how)

\* C37: when disconnect returns the handle is null and the state Disconnected,
\* the backend is not marked configured, the begin snapshot is empty and every
\* cached parameter, events and duration included, is at its class default;
\* a live session had its run ended, stop then endrun, before the peer
\* disconnect.
C37_DisconnectResets ==
  [][DisconnectStep
       => /\ control' = NoControl /\ state' = "Disconnected"
          /\ ~configured'
          /\ snap' = reset_begin
          /\ cfg' = default_config
          /\ control # NoControl => {"stop", "endrun", "disconnect"} \subseteq rpcs']_vars

\* ------------------------------------------------------ DaqLCLS1.complete
\* complete(), up to the return of _get_end_status: an end-status worker and a
\* pending token when the snapshot says the run is finite, else a token that
\* is finished at once (caller.e = 0)
complete_call ==
  /\ caller.pc = "idle"
  /\ IF InfiniteRun(snap, config)
       THEN /\ ew' = ew
            /\ caller' = [Idle EXCEPT !.pc = "complete2"]
     ELSE \E e \in 1..NEnd :
            /\ FreeE(e) /\ \A v \in 1..(e - 1) : ~FreeE(v)
            /\ ew' = [ew EXCEPT ![e] = [pc |-> "end", status |-> "pending"]]
            /\ caller' = [Idle EXCEPT !.pc = "complete2", !.e = e]
  /\ op' = "complete" /\ result' = "pending" /\ rpcs' = {}
  /\ retval' = <<>> /\ call_args' = <<>>
  /\ UNCHANGED <<prog, bw, fixed, peer, lag, finite, now, stop_stamp, begin_rpc>>

\* the rest of complete: "if self._infinite_run: self.stop()", and the token
\* is returned (retval: whether it is done by then)
complete_return(how) ==
  /\ caller.pc = "complete2"
  /\ \E m \in {IF InfiniteRun(snap, config) THEN DoStop(M0, how) ELSE M0} :
       /\ Apply(m) /\ Served(m)
       /\ result' = m.err /\ rpcs' = m.rpcs
  /\ retval' = <<IF caller.e = 0 \/ ew[caller.e].pc = "none" THEN "done"
                 ELSE "pending">>
  /\ op' = op /\ call_args' = <<>>
  /\ caller' = Idle
  /\ UNCHANGED <<re_cbid, pre_run_state, bw, ew, fixed, now, begin_rpc>>

\* Runs of every length completed by the user, with parameters staged and runs
\* stopped at any time.
NextComplete ==
  \/ connect
  \/ \E e \in {NoneVal, 1} : preconfig(e, CONFIG_VAL, "CFG", "CFG")
  \/ \E how \in StopOutcomes : stop(how)
  \/ \E e \in WaitEvents : kickoff(e, CONFIG_VAL, "CFG", TRUE, TRUE)
  \/ complete_call
  \/ \E how \in StopOutcomes : complete_return(how)
  \/ Threads

SpecComplete == Init /\ [][NextComplete]_vars

\* C38: complete on a peer taking data in an infinite run issues a stop and
\* returns a token that is done; on a peer taking data in a finite run it
\* starts an end-status worker, issues no stop, and its token is done only
\* after that worker's peer end RPC returned.
C38_Complete ==
  [][/\ (caller.pc = "idle" /\ caller'.pc = "complete2" /\ Acquiring(peer, lag))
          => IF finite
               THEN \E e \in 1..NEnd :
                      /\ ew[e].pc = "none" /\ ew'[e].pc = "end"
                      /\ ew'[e].status = "pending" /\ caller'.e = e
             ELSE ew' = ew /\ caller'.e = 0
     /\ (caller.pc = "complete2" /\ caller'.pc = "idle" /\ Acquiring(peer, lag))
          => IF finite THEN "stop" \notin rpcs' /\ retval' = <<"pending">>
             ELSE "stop" \in rpcs' /\ retval' = <<"done">>
     /\ \A e \in 1..NEnd :
          (ew[e].status = "pending" /\ ew'[e].status # "pending")
            => ew[e].pc = "post"]_vars

====
